---- MODULE Spec2Model ----
(***************************************************************************)
(* Free4Talk tracker API: the Express router of src/routes/api.js (and the *)
(* earlier router kept in src/unnamed/part_001) over a PostgreSQL pool.    *)
(*                                                                         *)
(* A request is a method, a path (a sequence of segments) and a query      *)
(* string (a function from the keys that are present to their values).     *)
(* Every handler is an operator from the request, the stored tables and    *)
(* the outcome of each storage call to the response, the list of queries   *)
(* it issued and the new profile_views table.  A query is its SQL text, a  *)
(* sequence of fragments each optionally ended by a placeholder $n, and    *)
(* the parameter array passed with it.                                     *)
(***************************************************************************)
EXTENDS Integers, Sequences, FiniteSets, TLC

\* ---------------------------------------------------------------- bounds
\* Timestamps are 0..MaxTime; NOW() is MaxTime.
MaxTime == 2
\* Rows of the sessions table the overlap specification ranges over.
MaxSessions == 3
\* Rows the service may add to profile_views before the model stops adding.
MaxViews == 2
\* The largest value of a stored counter in the tables the searches range over
MaxCount == 1

\* SQL NULL in a numeric or timestamp column.
NULL == -1
NOW == MaxTime

\* ------------------------------------------------------------------ text
\* TLC cannot look inside a string, so the characters of every string of the
\* model's universe that the code measures or pattern-matches are listed.
Chars(s) ==
    CASE s = "" -> <<>>
      [] s = "a" -> <<"a">>
      [] s = "al" -> <<"a", "l">>
      [] s = "AL" -> <<"A", "L">>
      [] s = "ali" -> <<"a", "l", "i">>
      [] s = "Al" -> <<"A", "l">>
      [] s = "bali" -> <<"b", "a", "l", "i">>
      [] s = "li" -> <<"l", "i">>
      [] s = "u1" -> <<"u", "1">>
      [] s = "U1" -> <<"U", "1">>
      [] s = "u2" -> <<"u", "2">>
      [] s = "u3" -> <<"u", "3">>
      [] s = "u9" -> <<"u", "9">>
      [] s = "en" -> <<"e", "n">>
      [] s = "es" -> <<"e", "s">>
      [] s = "talk" -> <<"t", "a", "l", "k">>
      [] s = "chat" -> <<"c", "h", "a", "t">>

\* JavaScript String.prototype.length
StrLen(s) == Len(Chars(s))

\* SQL LOWER() on one character
LowerChar(c) ==
    CASE c = "A" -> "a"
      [] c = "L" -> "l"
      [] c = "U" -> "u"
      [] OTHER -> c

\* SQL LOWER(): the characters of the lower-cased string
Lower(s) == [i \in 1..StrLen(s) |-> LowerChar(Chars(s)[i])]

\* x LIKE '%' || t || '%' on character sequences (t holds no wildcard)
Contains(x, t) ==
    \E i \in 0..(Len(x) - Len(t)) : SubSeq(x, i + 1, i + Len(t)) = t

\* x LIKE t || '%'
StartsWith(x, t) == Len(t) <= Len(x) /\ SubSeq(x, 1, Len(t)) = t

\* JavaScript truthiness of a query-string value (a string, or absent)
Has(query, k) == k \in DOMAIN query
Truthy(query, k) == Has(query, k) /\ query[k] # ""

\* const { k = d } = req.query
Get(query, k, d) == IF Has(query, k) THEN query[k] ELSE d

\* The decimal strings the model sends as limit, offset, days, hours,
\* min_overlaps; PostgreSQL casts the text parameter to a number.
ParseInt(s) ==
    CASE s = "0" -> 0
      [] s = "1" -> 1
      [] s = "2" -> 2
      [] s = "3" -> 3

Min(a, b) == IF a <= b THEN a ELSE b
Max(a, b) == IF a >= b THEN a ELSE b

\* ---------------------------------------------------------- sequences
Restrict(f, S) == [k \in S |-> f[k]]

RECURSIVE SeqOfSet(_)
SeqOfSet(S) ==
    IF S = {} THEN <<>>
    ELSE LET x == CHOOSE y \in S : TRUE IN <<x>> \o SeqOfSet(S \ {x})

\* The indices 1..n for which Keep holds, in order (a WHERE clause over a table)
FilterIdx(n, Keep(_)) == SelectSeq([i \in 1..n |-> i], Keep)

\* ORDER BY: the rows of s ordered by Before, rows that tie kept in their order
SortBy(s, Before(_, _)) ==
    LET rank(i) ==
            Cardinality({j \in DOMAIN s :
                \/ Before(s[j], s[i])
                \/ (~Before(s[i], s[j]) /\ j < i)}) + 1
    IN [p \in DOMAIN s |-> s[CHOOSE i \in DOMAIN s : rank(i) = p]]

\* LIMIT n OFFSET k
LimitOffset(s, n, k) == SubSeq(s, k + 1, Min(Len(s), k + n))

Range(s) == {s[i] : i \in DOMAIN s}

\* All sequences over S of length at most n
SeqsUpTo(S, n) == UNION {[1..k -> S] : k \in 0..n}

\* ------------------------------------------------------------ storage
VARIABLES
    users,              \* table users, in storage order
    rooms,              \* table rooms
    sessions,           \* table sessions; session_id is the row's position
    user_activity_log,  \* table user_activity_log
    room_snapshots,     \* table room_snapshots
    room_analytics,     \* table room_analytics
    profile_views,      \* table profile_views, the only table the service writes
    pc,                 \* "idle": waiting for a request; "done": response sent
    req,                \* the request: method, path, params, query
    handler,            \* the route handler that served the request
    res,                \* the response: status, kind of body, body
    log                 \* the storage calls the handler issued, in order

tables == <<users, rooms, sessions, user_activity_log, room_snapshots, room_analytics>>
vars == <<users, rooms, sessions, user_activity_log, room_snapshots, room_analytics,
          profile_views, pc, req, handler, res, log>>

\* A nullable boolean column is "true", "false" or "null".
SeedUsers ==
    << [user_id |-> "u1", username |-> "al", followers_count |-> 1,
        following_count |-> NULL, friends_count |-> 0, supporter_level |-> NULL,
        profile_views_count |-> NULL, total_sessions |-> 2,
        total_duration_seconds |-> NULL, last_seen |-> 2],
       [user_id |-> "u2", username |-> "ali", followers_count |-> 5,
        following_count |-> 1, friends_count |-> 1, supporter_level |-> 1,
        profile_views_count |-> 3, total_sessions |-> NULL,
        total_duration_seconds |-> 4, last_seen |-> 1],
       [user_id |-> "u3", username |-> "bali", followers_count |-> NULL,
        following_count |-> 0, friends_count |-> 0, supporter_level |-> 0,
        profile_views_count |-> 0, total_sessions |-> 0,
        total_duration_seconds |-> 0, last_seen |-> 0] >>

SeedRooms ==
    << [room_id |-> "r1", topic |-> "talk", language |-> "en", skill_level |-> "beginner",
        is_active |-> "true", current_users_count |-> 1, max_capacity |-> 5,
        first_seen |-> 0, last_activity |-> 2],
       [room_id |-> "r2", topic |-> "chat", language |-> "es", skill_level |-> "advanced",
        is_active |-> "false", current_users_count |-> 0, max_capacity |-> 5,
        first_seen |-> 0, last_activity |-> 1] >>

\* One join/leave cycle.  left_at is NULL while the session is ongoing.
Session(u, r, j, l) ==
    [user_id |-> u, room_id |-> r, joined_at |-> j, left_at |-> l,
     is_currently_active |-> (l = NULL), event_type |-> IF l = NULL THEN "join" ELSE "leave"]

SeedSessions ==
    << Session("u1", "r1", 0, 1), Session("u2", "r1", 0, NULL),
       Session("u1", "r2", 1, 2), Session("u1", "r1", 2, NULL) >>

SeedActivityLog ==
    << [user_id |-> "u1", activity_type |-> "profile_update",
        activity_data |-> "{\"followers\":1}", activity_time |-> 1] >>

SeedSnapshots ==
    << [room_id |-> "r1", snapshot_time |-> 1, participants_count |-> 2,
        participants_json |-> "[\"u1\",\"u2\"]", is_active |-> "true"],
       [room_id |-> "r1", snapshot_time |-> 2, participants_count |-> 1,
        participants_json |-> "[\"u2\"]", is_active |-> "true"] >>

SeedAnalytics ==
    << [room_id |-> "r1", date |-> 2, total_participants |-> 2, unique_participants |-> 2,
        total_sessions |-> 3, avg_session_duration_seconds |-> 1,
        peak_concurrent_users |-> 2] >>

\* sessions.duration_seconds as the ingestion process stores it
Duration(s) == IF s.left_at = NULL THEN NULL ELSE s.left_at - s.joined_at

NoRequest == [method |-> "", path |-> <<>>, params |-> <<>>, query |-> <<>>]
NoResponse == [status |-> 0, kind |-> "none", body |-> <<>>]

InitRequest ==
    /\ pc = "idle"
    /\ req = NoRequest
    /\ handler = "none"
    /\ res = NoResponse
    /\ log = <<>>

Init ==
    /\ users = SeedUsers
    /\ rooms = SeedRooms
    /\ sessions = SeedSessions
    /\ user_activity_log = SeedActivityLog
    /\ room_snapshots = SeedSnapshots
    /\ room_analytics = SeedAnalytics
    /\ profile_views = <<>>
    /\ InitRequest

\* ------------------------------------------------------- queries, replies
\* SQL text: a fragment, and a fragment ended by the placeholder $n
T(s) == [s |-> s, ph |-> 0]
P(s, n) == [s |-> s, ph |-> n]

\* An element of a parameter array: the expression pushed and its value
V(name, val) == [name |-> name, val |-> val]

\* The k-th pool.query call of a handler; it rejects when fail = k
Q(sql, params, k, fail) ==
    [sql |-> sql, params |-> params, outcome |-> IF fail = k THEN "error" ELSE "ok"]

\* error.message of a rejected pool.query
ErrorMessage == "storage error"

Reply(status, kind, body, queries, views) ==
    [res |-> [status |-> status, kind |-> kind, body |-> body],
     log |-> queries, views |-> views]

\* res.json(rows)
Rows(rows, queries) == Reply(200, "array", rows, queries, profile_views)

\* res.status(404).json({ error })
NotFound(msg, queries) == Reply(404, "object", [error |-> msg], queries, profile_views)

\* catch (error) { res.status(500).json({ error, details: error.message }) }
Failed(msg, queries) ==
    Reply(500, "object", [error |-> msg, details |-> ErrorMessage], queries, profile_views)

\* x || 0 on a column value
OrZero(x) == IF x = NULL THEN 0 ELSE x

\* The columns cols of a row
Project(row, cols) == [c \in cols |-> row[c]]

ProjectAll(rs, cols) == [i \in DOMAIN rs |-> Project(rs[i], cols)]

RECURSIVE Sum(_)
Sum(s) == IF s = <<>> THEN 0 ELSE Head(s) + Sum(Tail(s))

\* x DESC NULLS LAST: x sorts before y
DescNullsLast(x, y) == x # NULL /\ (y = NULL \/ x > y)

\* x DESC (PostgreSQL puts NULL first in a descending order): x sorts before y
Desc(x, y) == (x = NULL /\ y # NULL) \/ (x # NULL /\ y # NULL /\ x > y)

\* The rows of table t at the positions idx
At(t, idx) == [i \in DOMAIN idx |-> t[idx[i]]]

\* The rows of table t that satisfy Where
Select(t, Where(_)) == SelectSeq(t, Where)

\* The session rows with their session_id
SessionsWithId == [i \in DOMAIN sessions |-> [session_id |-> i] @@ sessions[i]]

\* ------------------------------------------------- recordProfileView
\* The recorder without its try/catch: a rejected insert reaches the caller
recordProfileViewUncaught(userId, ins) ==
    [query |-> [sql |-> << P("INSERT INTO profile_views (viewed_user_id, viewer_ip, viewer_user_agent, viewed_at) VALUES (", 1),
                          P(", ", 2), P(", ", 3), T(", NOW()) ON CONFLICT DO NOTHING") >>,
                params |-> << V("userId", userId),
                              V("viewerIp.substring(0, 50)", "ip"),
                              V("viewerUserAgent.substring(0, 255)", "agent") >>,
                outcome |-> ins],
     views |-> IF ins = "inserted"
               THEN Append(profile_views,
                           [viewed_user_id |-> userId, viewer_ip |-> "ip",
                            viewer_user_agent |-> "agent", viewed_at |-> NOW])
               ELSE profile_views,
     threw |-> ins = "error"]

\* The insert is issued with outcome ins: "inserted", "conflict" (ON CONFLICT
\* DO NOTHING drops the row) or "error" (the query rejects).  The catch
\* swallows the rejection, so the caller never sees a throw.
recordProfileView(userId, ins) ==
    [query |-> [sql |-> << P("INSERT INTO profile_views (viewed_user_id, viewer_ip, viewer_user_agent, viewed_at) VALUES (", 1),
                          P(", ", 2), P(", ", 3), T(", NOW()) ON CONFLICT DO NOTHING") >>,
                params |-> << V("userId", userId),
                              V("viewerIp.substring(0, 50)", "ip"),
                              V("viewerUserAgent.substring(0, 255)", "agent") >>,
                outcome |-> ins],
     views |-> IF ins = "inserted"
               THEN Append(profile_views,
                           [viewed_user_id |-> userId, viewer_ip |-> "ip",
                            viewer_user_agent |-> "agent", viewed_at |-> NOW])
               ELSE profile_views,
     threw |-> FALSE]

\* The number PostgreSQL reads from the parameter built from req.query[k]
NumParam(query, k, d) == IF Has(query, k) THEN ParseInt(query[k]) ELSE d

\* ------------------------------------------- 1. GET /users/search
UsersSearchSql ==
    << P("SELECT user_id, username, user_avatar, followers_count, following_count, friends_count, verification_status, supporter_level, last_seen, total_sessions FROM users WHERE LOWER(username) LIKE LOWER(", 1),
       P(") OR LOWER(user_id) LIKE LOWER(", 1),
       P(") ORDER BY CASE WHEN LOWER(username) = LOWER(", 2),
       P(") THEN 1 WHEN LOWER(username) LIKE LOWER(", 3),
       P(") THEN 2 ELSE 3 END, followers_count DESC NULLS LAST, total_sessions DESC NULLS LAST LIMIT ", 4) >>

\* CASE WHEN LOWER(username) = LOWER($2) THEN 1 WHEN ... LIKE LOWER($3) THEN 2 ELSE 3
SearchTier(u, q) ==
    IF Lower(u.username) = Lower(q) THEN 1
    ELSE IF StartsWith(Lower(u.username), Lower(q)) THEN 2
    ELSE 3

\* The search order with the relevance tier placed after the follower count
UsersSearchBeforeFollowersFirst(a, b, q) ==
    \/ DescNullsLast(a.followers_count, b.followers_count)
    \/ /\ a.followers_count = b.followers_count
       /\ \/ SearchTier(a, q) < SearchTier(b, q)
          \/ /\ SearchTier(a, q) = SearchTier(b, q)
             /\ DescNullsLast(a.total_sessions, b.total_sessions)

UsersSearchBefore(a, b, q) ==
    \/ SearchTier(a, q) < SearchTier(b, q)
    \/ /\ SearchTier(a, q) = SearchTier(b, q)
       /\ \/ DescNullsLast(a.followers_count, b.followers_count)
          \/ /\ a.followers_count = b.followers_count
             /\ DescNullsLast(a.total_sessions, b.total_sessions)

UsersSearchRows(q, limit) ==
    LET match(u) == \/ Contains(Lower(u.username), Lower(q))
                    \/ Contains(Lower(u.user_id), Lower(q))
        before(a, b) == UsersSearchBefore(a, b, q)
    IN ProjectAll(LimitOffset(SortBy(Select(users, match), before), limit, 0),
                  {"user_id", "username", "followers_count", "following_count",
                   "friends_count", "supporter_level", "last_seen", "total_sessions"})

UsersSearch(r, fail) ==
    LET q == r.query["q"]
        query == Q(UsersSearchSql,
                   << V("searchTerm", <<"%", q, "%">>), V("exactTerm", q),
                      V("startsWithTerm", <<q, "%">>), V("limit", Get(r.query, "limit", 20)) >>,
                   1, fail)
    IN IF ~Truthy(r.query, "q") \/ StrLen(q) < 2 THEN Rows(<<>>, <<>>)
       ELSE IF fail = 1 THEN Failed("Search failed", <<query>>)
       ELSE Rows(UsersSearchRows(q, NumParam(r.query, "limit", 20)), <<query>>)

\* ------------------------------------------- 2. GET /users/:userId
GetUserSql ==
    << P("SELECT user_id, username, user_avatar, followers_count, following_count, friends_count, supporter_level, verification_status, first_seen, last_seen, profile_views_count, total_sessions, total_duration_seconds, created_at, updated_at FROM users WHERE user_id = ", 1),
       P(" OR LOWER(username) = LOWER(", 1), T(")") >>

UserStatsSql ==
    << P("SELECT COUNT(DISTINCT room_id) as total_rooms_visited, COUNT(DISTINCT session_id) as total_sessions, COALESCE(SUM(duration_seconds), 0)::BIGINT as total_duration_seconds, COALESCE(AVG(duration_seconds), 0)::INTEGER as avg_session_duration, MAX(joined_at) as last_active, COUNT(CASE WHEN is_currently_active THEN 1 END) > 0 as is_currently_active FROM sessions WHERE user_id = ", 1) >>

FavLangSql ==
    << P("SELECT r.language, COUNT(*) as visit_count FROM sessions s JOIN rooms r ON s.room_id = r.room_id WHERE s.user_id = ", 1),
       T(" GROUP BY r.language ORDER BY visit_count DESC LIMIT 1") >>

\* WHERE user_id = $1 OR LOWER(username) = LOWER($1)
GetUserMatches(u, userId) == u.user_id = userId \/ Lower(u.username) = Lower(userId)

\* The durations that are not NULL, of a sequence of sessions
Durations(ss) ==
    LET known == Select(ss, LAMBDA x : x.left_at # NULL)
    IN [i \in DOMAIN known |-> Duration(known[i])]

\* AVG(duration_seconds)::INTEGER, NULL over no value (the cast rounds; the
\* model's averages are taken toward zero)
AvgDuration(ss) ==
    IF Durations(ss) = <<>> THEN NULL ELSE Sum(Durations(ss)) \div Len(Durations(ss))

\* MAX and MIN of a column, NULL over no row
MaxOf(S) == IF S = {} THEN NULL ELSE CHOOSE x \in S : \A y \in S : y <= x
MinOf(S) == IF S = {} THEN NULL ELSE CHOOSE x \in S : \A y \in S : x <= y

UserStatsRow(uid) ==
    LET mine == Select(SessionsWithId, LAMBDA x : x.user_id = uid)
    IN [total_rooms_visited |-> Cardinality({mine[i].room_id : i \in DOMAIN mine}),
        total_sessions |-> Len(mine),
        total_duration_seconds |-> Sum(Durations(mine)),
        avg_session_duration |-> OrZero(AvgDuration(mine)),
        last_active |-> MaxOf({mine[i].joined_at : i \in DOMAIN mine}),
        is_currently_active |-> \E i \in DOMAIN mine : mine[i].is_currently_active]

\* The language of the rooms the user visited most; "null" without a visit.
\* Languages that tie are ordered by the storage engine.
FavoriteLanguage(uid) ==
    LET visits(l) == Cardinality({i \in DOMAIN sessions :
                        /\ sessions[i].user_id = uid
                        /\ \E k \in DOMAIN rooms :
                              rooms[k].room_id = sessions[i].room_id /\ rooms[k].language = l})
        langs == {rooms[k].language : k \in DOMAIN rooms}
        seen == {l \in langs : visits(l) > 0}
    IN IF seen = {} THEN "null"
       ELSE CHOOSE l \in seen : \A m \in seen : visits(m) <= visits(l)

\* The body of the profile response
ProfileBody(user, stats, favoriteLanguage) ==
    [user_id |-> user.user_id,
     username |-> user.username,
     last_seen |-> user.last_seen,
     followers_count |-> OrZero(user.followers_count),
     following_count |-> OrZero(user.following_count),
     friends_count |-> OrZero(user.friends_count),
     supporter_level |-> OrZero(user.supporter_level),
     profile_views_count |-> OrZero(user.profile_views_count),
     total_sessions |-> OrZero(user.total_sessions),
     total_duration_seconds |-> OrZero(user.total_duration_seconds),
     statistics |->
        [total_rooms_visited |-> stats.total_rooms_visited,
         total_sessions |-> stats.total_sessions,
         total_duration_seconds |-> stats.total_duration_seconds,
         avg_session_duration |-> stats.avg_session_duration,
         favorite_language |-> favoriteLanguage,
         last_active |-> IF stats.last_active = NULL THEN user.last_seen
                         ELSE stats.last_active,
         is_currently_active |-> stats.is_currently_active]]

\* The profile handler keying its follow-up queries and the view by the raw
\* path parameter instead of the user_id of the row it found
GetUserRawKey(r, fail, ins, pick) ==
    LET userId == r.params["userId"]
        q1 == Q(GetUserSql, << V("userId", userId) >>, 1, fail)
        found == Select(users, LAMBDA u : GetUserMatches(u, userId))
        user == IF GetUserMatches(users[pick], userId) THEN users[pick] ELSE found[1]
        q2 == Q(UserStatsSql, << V("user.user_id", userId) >>, 2, fail)
        q3 == Q(FavLangSql, << V("user.user_id", userId) >>, 3, fail)
        rec == recordProfileView(userId, ins)
        record == Get(r.query, "record_view", "false") = "true"
    IN IF fail = 1 THEN Failed("Failed to get user", <<q1>>)
       ELSE IF found = <<>> THEN NotFound("User not found", <<q1>>)
       ELSE IF fail = 2 THEN Failed("Failed to get user", <<q1, q2>>)
       ELSE IF fail = 3 THEN Failed("Failed to get user", <<q1, q2, q3>>)
       ELSE Reply(200, "object",
                  ProfileBody(user, UserStatsRow(userId), FavoriteLanguage(userId)),
                  IF record THEN <<q1, q2, q3, rec.query>> ELSE <<q1, q2, q3>>,
                  IF record THEN rec.views ELSE profile_views)

\* The profile handler recording a view whatever record_view says
GetUserAlwaysRecords(r, fail, ins, pick) ==
    LET userId == r.params["userId"]
        q1 == Q(GetUserSql, << V("userId", userId) >>, 1, fail)
        found == Select(users, LAMBDA u : GetUserMatches(u, userId))
        user == IF GetUserMatches(users[pick], userId) THEN users[pick] ELSE found[1]
        q2 == Q(UserStatsSql, << V("user.user_id", user.user_id) >>, 2, fail)
        q3 == Q(FavLangSql, << V("user.user_id", user.user_id) >>, 3, fail)
        rec == recordProfileView(user.user_id, ins)
    IN IF fail = 1 THEN Failed("Failed to get user", <<q1>>)
       ELSE IF found = <<>> THEN NotFound("User not found", <<q1>>)
       ELSE IF fail = 2 THEN Failed("Failed to get user", <<q1, q2>>)
       ELSE IF fail = 3 THEN Failed("Failed to get user", <<q1, q2, q3>>)
       ELSE Reply(200, "object",
                  ProfileBody(user, UserStatsRow(user.user_id), FavoriteLanguage(user.user_id)),
                  <<q1, q2, q3, rec.query>>, rec.views)

\* pick: the position in users of the row the storage engine returns first
\* when it matches (the query has no ORDER BY).
GetUser(r, fail, ins, pick) ==
    LET userId == r.params["userId"]
        q1 == Q(GetUserSql, << V("userId", userId) >>, 1, fail)
        found == Select(users, LAMBDA u : GetUserMatches(u, userId))
        user == IF GetUserMatches(users[pick], userId) THEN users[pick] ELSE found[1]
        q2 == Q(UserStatsSql, << V("user.user_id", user.user_id) >>, 2, fail)
        q3 == Q(FavLangSql, << V("user.user_id", user.user_id) >>, 3, fail)
        rec == recordProfileView(user.user_id, ins)
        record == Get(r.query, "record_view", "false") = "true"
    IN IF fail = 1 THEN Failed("Failed to get user", <<q1>>)
       ELSE IF found = <<>> THEN NotFound("User not found", <<q1>>)
       ELSE IF fail = 2 THEN Failed("Failed to get user", <<q1, q2>>)
       ELSE IF fail = 3 THEN Failed("Failed to get user", <<q1, q2, q3>>)
       ELSE IF record /\ rec.threw
            THEN Failed("Failed to get user", <<q1, q2, q3, rec.query>>)
       ELSE Reply(200, "object",
                  ProfileBody(user, UserStatsRow(user.user_id), FavoriteLanguage(user.user_id)),
                  IF record THEN <<q1, q2, q3, rec.query>> ELSE <<q1, q2, q3>>,
                  IF record THEN rec.views ELSE profile_views)

\* JSON.parse of the serialized columns the seed tables hold
JsonParse(s) ==
    CASE s = "{\"followers\":1}" -> [followers |-> 1]
      [] s = "[\"u1\",\"u2\"]" -> <<"u1", "u2">>
      [] s = "[\"u2\"]" -> <<"u2">>

\* parseInt of a query value, or of the numeric default
ParseIntOr(query, k, d) == IF Has(query, k) THEN ParseInt(query[k]) ELSE d

\* ------------------------------------------- 3. GET /users/:userId/history
UserHistorySql ==
    << P("SELECT log_id, activity_type, activity_data, activity_time FROM user_activity_log WHERE user_id = ", 1),
       P(" AND (", 2), P(" = 'all' OR activity_type = ", 2),
       P(") ORDER BY activity_time DESC LIMIT ", 3) >>

UserHistoryRows(userId, type, limit) ==
    LET withId == [i \in DOMAIN user_activity_log |-> [log_id |-> i] @@ user_activity_log[i]]
        mine == Select(withId, LAMBDA x :
                    x.user_id = userId /\ (type = "all" \/ x.activity_type = type))
        sorted == SortBy(mine, LAMBDA a, b : Desc(a.activity_time, b.activity_time))
        page == LimitOffset(sorted, limit, 0)
    IN [i \in DOMAIN page |->
           [log_id |-> page[i].log_id, activity_type |-> page[i].activity_type,
            activity_data |-> JsonParse(page[i].activity_data),
            activity_time |-> page[i].activity_time]]

UserHistory(r, fail) ==
    LET userId == r.params["userId"]
        type == Get(r.query, "type", "all")
        query == Q(UserHistorySql,
                   << V("userId", userId), V("type", type),
                      V("limit", Get(r.query, "limit", 50)) >>, 1, fail)
    IN IF fail = 1 THEN Failed("Failed to get user history", <<query>>)
       ELSE Rows(UserHistoryRows(userId, type, NumParam(r.query, "limit", 50)), <<query>>)

\* ------------------------------------------- 4. GET /users/:userId/rooms
\* The WHERE clause, the parameter array and paramCount after the optional
\* filters, then the page query and the count query built from them.
UserRoomsBuild(r) ==
    LET where0 == << P("s.user_id = ", 1) >>
        params0 == << V("userId", r.params["userId"]) >>
        count0 == 1
        hasLang == Truthy(r.query, "language")
        count1 == IF hasLang THEN count0 + 1 ELSE count0
        where1 == IF hasLang THEN Append(where0, P(" AND r.language = ", count1)) ELSE where0
        params1 == IF hasLang THEN Append(params0, V("language", r.query["language"]))
                   ELSE params0
        hasSkill == Truthy(r.query, "skill_level")
        count2 == IF hasSkill THEN count1 + 1 ELSE count1
        where2 == IF hasSkill THEN Append(where1, P(" AND r.skill_level = ", count2))
                  ELSE where1
        params2 == IF hasSkill THEN Append(params1, V("skill_level", r.query["skill_level"]))
                   ELSE params1
        params3 == params2 \o << V("limit", Get(r.query, "limit", 50)),
                                 V("offset", Get(r.query, "offset", 0)) >>
    IN [whereClause |-> where2,
        paramCount |-> count2,
        query |-> << T("SELECT r.room_id, r.language, r.second_language, r.skill_level, r.topic, r.is_active, r.current_users_count, r.max_capacity, MAX(s.joined_at) as last_visit, MIN(s.joined_at) as first_visit, COUNT(s.session_id) as total_visits, SUM(s.duration_seconds) as total_time_seconds, AVG(s.duration_seconds)::INTEGER as avg_session_duration FROM sessions s JOIN rooms r ON s.room_id = r.room_id WHERE ") >>
                  \o where2
                  \o << T(" GROUP BY r.room_id, r.language, r.second_language, r.skill_level, r.topic, r.is_active, r.current_users_count, r.max_capacity ORDER BY last_visit DESC"),
                        P(" LIMIT ", count2 + 1), P(" OFFSET ", count2 + 2) >>,
        params |-> params3,
        countQuery |-> << T("SELECT COUNT(DISTINCT s.room_id) as total FROM sessions s JOIN rooms r ON s.room_id = r.room_id WHERE ") >>
                       \o where2,
        countParams |-> SubSeq(params3, 1, count2)]

\* The rooms the WHERE clause of the room history ranges over
UserRoomsMatching(r) ==
    Select(rooms, LAMBDA room :
        /\ \E i \in DOMAIN sessions :
              sessions[i].user_id = r.params["userId"] /\ sessions[i].room_id = room.room_id
        /\ Truthy(r.query, "language") => room.language = r.query["language"]
        /\ Truthy(r.query, "skill_level") => room.skill_level = r.query["skill_level"])

UserRoomsRow(room, userId) ==
    LET visits == Select(sessions, LAMBDA x : x.user_id = userId /\ x.room_id = room.room_id)
    IN [room_id |-> room.room_id, language |-> room.language,
        skill_level |-> room.skill_level, topic |-> room.topic,
        is_active |-> room.is_active, current_users_count |-> room.current_users_count,
        max_capacity |-> room.max_capacity,
        last_visit |-> MaxOf({visits[i].joined_at : i \in DOMAIN visits}),
        first_visit |-> MinOf({visits[i].joined_at : i \in DOMAIN visits}),
        total_visits |-> Len(visits),
        total_time_seconds |-> IF Durations(visits) = <<>> THEN NULL
                               ELSE Sum(Durations(visits)),
        avg_session_duration |-> AvgDuration(visits)]

UserRoomsRows(r) ==
    LET matching == UserRoomsMatching(r)
        grouped == [i \in DOMAIN matching |-> UserRoomsRow(matching[i], r.params["userId"])]
        sorted == SortBy(grouped, LAMBDA a, b : Desc(a.last_visit, b.last_visit))
    IN LimitOffset(sorted, NumParam(r.query, "limit", 50), NumParam(r.query, "offset", 0))

\* The pagination block with the last page still reported as having more
PaginationInclusive(total, limit, offset, returned) ==
    [total |-> total, limit |-> limit, offset |-> offset,
     has_more |-> offset + returned <= total]

\* { total, limit, offset, has_more }
Pagination(total, limit, offset, returned) ==
    [total |-> total, limit |-> limit, offset |-> offset,
     has_more |-> offset + returned < total]

UserRooms(r, fail) ==
    LET b == UserRoomsBuild(r)
        q1 == Q(b.query, b.params, 1, fail)
        q2 == Q(b.countQuery, b.countParams, 2, fail)
        rows == UserRoomsRows(r)
    IN IF fail = 1 THEN Failed("Failed to get rooms", <<q1>>)
       ELSE IF fail = 2 THEN Failed("Failed to get rooms", <<q1, q2>>)
       ELSE Reply(200, "object",
                  [rooms |-> rows,
                   pagination |-> Pagination(Len(UserRoomsMatching(r)),
                                             ParseIntOr(r.query, "limit", 50),
                                             ParseIntOr(r.query, "offset", 0),
                                             Len(rows))],
                  <<q1, q2>>, profile_views)

\* --------------------------- 5. GET /users/:userId/rooms/:roomId/sessions
UserRoomSessionsSql ==
    << P("SELECT session_id, joined_at, left_at, duration_seconds, is_currently_active, event_type, user_position, mic_was_on FROM sessions WHERE user_id = ", 1),
       P(" AND room_id = ", 2), P(" ORDER BY joined_at DESC LIMIT ", 3), P(" OFFSET ", 4) >>

SessionRow(x) ==
    [session_id |-> x.session_id, joined_at |-> x.joined_at, left_at |-> x.left_at,
     duration_seconds |-> Duration(x), is_currently_active |-> x.is_currently_active,
     event_type |-> x.event_type]

UserRoomSessionsRows(userId, roomId, limit, offset) ==
    LET mine == Select(SessionsWithId, LAMBDA x : x.user_id = userId /\ x.room_id = roomId)
        sorted == SortBy(mine, LAMBDA a, b : Desc(a.joined_at, b.joined_at))
        page == LimitOffset(sorted, limit, offset)
    IN [i \in DOMAIN page |-> SessionRow(page[i])]

UserRoomSessions(r, fail) ==
    LET query == Q(UserRoomSessionsSql,
                   << V("userId", r.params["userId"]), V("roomId", r.params["roomId"]),
                      V("limit", Get(r.query, "limit", 100)),
                      V("offset", Get(r.query, "offset", 0)) >>, 1, fail)
    IN IF fail = 1 THEN Failed("Failed to get sessions", <<query>>)
       ELSE Rows(UserRoomSessionsRows(r.params["userId"], r.params["roomId"],
                                      NumParam(r.query, "limit", 100),
                                      NumParam(r.query, "offset", 0)), <<query>>)

\* ------------------------------------------- 6. GET /rooms/:roomId
GetRoomSql ==
    << P("SELECT room_id, channel, platform, topic, language, second_language, skill_level, max_capacity, allows_unlimited, is_locked, mic_allowed, mic_required, no_mic, al_mic, url, creator_user_id, creator_name, creator_avatar, creator_is_verified, is_active, is_full, is_empty, current_users_count, first_seen, last_activity, created_at, updated_at FROM rooms WHERE room_id = ", 1) >>

RoomStatsSql ==
    << P("SELECT COUNT(DISTINCT user_id) as total_unique_participants, COUNT(session_id) as total_sessions, COALESCE(AVG(duration_seconds), 0)::INTEGER as avg_duration_seconds, COALESCE(MAX(duration_seconds), 0) as max_duration_seconds, MIN(joined_at) as first_activity, MAX(COALESCE(left_at, joined_at)) as last_activity, COUNT(CASE WHEN is_currently_active THEN 1 END) as currently_active_users FROM sessions WHERE room_id = ", 1) >>

RoomStatsRow(roomId) ==
    LET here == Select(sessions, LAMBDA x : x.room_id = roomId)
        durations == Durations(here)
    IN [total_unique_participants |-> Cardinality({here[i].user_id : i \in DOMAIN here}),
        total_sessions |-> Len(here),
        avg_duration_seconds |-> OrZero(AvgDuration(here)),
        max_duration_seconds |-> OrZero(MaxOf(Range(durations))),
        first_activity |-> MinOf({here[i].joined_at : i \in DOMAIN here}),
        last_activity |-> MaxOf({IF here[i].left_at = NULL THEN here[i].joined_at
                                 ELSE here[i].left_at : i \in DOMAIN here}),
        currently_active_users |->
            Cardinality({i \in DOMAIN here : here[i].is_currently_active})]

\* room.is_active && parseInt(stats.currently_active_users) > 0
RoomIsCurrentlyActive(room, stats) ==
    IF room.is_active = "true"
    THEN (IF stats.currently_active_users > 0 THEN "true" ELSE "false")
    ELSE room.is_active

RoomBody(room, stats) ==
    room @@
    [statistics |->
        [total_unique_participants |-> stats.total_unique_participants,
         total_sessions |-> stats.total_sessions,
         avg_duration_seconds |-> stats.avg_duration_seconds,
         max_duration_seconds |-> stats.max_duration_seconds,
         first_activity |-> IF stats.first_activity = NULL THEN room.first_seen
                            ELSE stats.first_activity,
         last_activity |-> IF stats.last_activity = NULL THEN room.last_activity
                           ELSE stats.last_activity,
         currently_active_users |-> stats.currently_active_users,
         is_currently_active |-> RoomIsCurrentlyActive(room, stats)]]

GetRoom(r, fail) ==
    LET roomId == r.params["roomId"]
        q1 == Q(GetRoomSql, << V("roomId", roomId) >>, 1, fail)
        q2 == Q(RoomStatsSql, << V("roomId", roomId) >>, 2, fail)
        found == Select(rooms, LAMBDA x : x.room_id = roomId)
    IN IF fail = 1 THEN Failed("Failed to get room", <<q1>>)
       ELSE IF found = <<>> THEN NotFound("Room not found", <<q1>>)
       ELSE IF fail = 2 THEN Failed("Failed to get room", <<q1, q2>>)
       ELSE Reply(200, "object", RoomBody(found[1], RoomStatsRow(roomId)),
                  <<q1, q2>>, profile_views)

\* ------------------------------------------- 7. GET /rooms/:roomId/participants
CurrentParticipantsSql ==
    << P("SELECT u.user_id, u.username, u.user_avatar, u.followers_count, u.verification_status, u.supporter_level, s.joined_at, s.user_position, s.mic_was_on FROM sessions s JOIN users u ON s.user_id = u.user_id WHERE s.room_id = ", 1),
       T(" AND s.is_currently_active = true ORDER BY s.user_position ASC NULLS LAST, s.joined_at ASC") >>

AllParticipantsSql ==
    << P("SELECT DISTINCT ON (u.user_id) u.user_id, u.username, u.user_avatar, u.followers_count, u.verification_status, u.supporter_level, MAX(s.joined_at) as last_joined, COUNT(s.session_id) as total_sessions FROM sessions s JOIN users u ON s.user_id = u.user_id WHERE s.room_id = ", 1),
       T(" GROUP BY u.user_id, u.username, u.user_avatar, u.followers_count, u.verification_status, u.supporter_level ORDER BY u.user_id, last_joined DESC") >>

\* The position of a stored user_id in the collation order of ORDER BY u.user_id
Collate(uid) ==
    CASE uid = "u1" -> 1
      [] uid = "u2" -> 2
      [] uid = "u3" -> 3

\* The users row with the given user_id (sessions.user_id is a foreign key)
UserOf(uid) == users[CHOOSE k \in DOMAIN users : users[k].user_id = uid]
HasUser(uid) == \E k \in DOMAIN users : users[k].user_id = uid

CurrentParticipantsRows(roomId) ==
    LET here == Select(sessions, LAMBDA x :
                    x.room_id = roomId /\ x.is_currently_active /\ HasUser(x.user_id))
        sorted == SortBy(here, LAMBDA a, b : a.joined_at < b.joined_at)
    IN [i \in DOMAIN sorted |->
           [user_id |-> sorted[i].user_id, username |-> UserOf(sorted[i].user_id).username,
            followers_count |-> UserOf(sorted[i].user_id).followers_count,
            joined_at |-> sorted[i].joined_at]]

AllParticipantsRows(roomId) ==
    LET visitors == Select(users, LAMBDA u :
                        \E i \in DOMAIN sessions :
                            sessions[i].room_id = roomId /\ sessions[i].user_id = u.user_id)
        sorted == SortBy(visitors, LAMBDA a, b : Collate(a.user_id) < Collate(b.user_id))
        mine(u) == Select(sessions, LAMBDA x : x.room_id = roomId /\ x.user_id = u.user_id)
    IN [i \in DOMAIN sorted |->
           [user_id |-> sorted[i].user_id, username |-> sorted[i].username,
            followers_count |-> sorted[i].followers_count,
            last_joined |-> MaxOf({mine(sorted[i])[k].joined_at : k \in DOMAIN mine(sorted[i])}),
            total_sessions |-> Len(mine(sorted[i]))]]

RoomParticipants(r, fail) ==
    LET roomId == r.params["roomId"]
        current == Get(r.query, "current_only", "true") = "true"
        query == Q(IF current THEN CurrentParticipantsSql ELSE AllParticipantsSql,
                   << V("roomId", roomId) >>, 1, fail)
    IN IF fail = 1 THEN Failed("Failed to get participants", <<query>>)
       ELSE Rows(IF current THEN CurrentParticipantsRows(roomId)
                 ELSE AllParticipantsRows(roomId), <<query>>)

\* ------------------------------------------- 8. GET /rooms/:roomId/timeline
\* The timeline builder filtering on whatever event_type the request names
RoomTimelineBuildAnyType(r) ==
    LET where0 == << P("s.room_id = ", 1) >>
        params0 == << V("roomId", r.params["roomId"]) >>
        hasType == Truthy(r.query, "event_type")
        params1 == IF hasType THEN Append(params0, V("event_type", r.query["event_type"]))
                   ELSE params0
        where1 == IF hasType THEN Append(where0, P(" AND s.event_type = ", Len(params1)))
                  ELSE where0
    IN [whereClause |-> where1,
        query |-> << T("SELECT s.session_id, s.user_id, u.username, u.user_avatar, u.verification_status, s.joined_at, s.left_at, s.duration_seconds, s.event_type, s.is_currently_active FROM sessions s JOIN users u ON s.user_id = u.user_id WHERE ") >>
                  \o where1
                  \o << T(" ORDER BY s.joined_at DESC"),
                        P(" LIMIT ", Len(params1) + 1), P(" OFFSET ", Len(params1) + 2) >>,
        params |-> params1 \o << V("limit", Get(r.query, "limit", 100)),
                                 V("offset", Get(r.query, "offset", 0)) >>]

RoomTimelineBuild(r) ==
    LET where0 == << P("s.room_id = ", 1) >>
        params0 == << V("roomId", r.params["roomId"]) >>
        hasType == /\ Truthy(r.query, "event_type")
                   /\ r.query["event_type"] \in {"join", "leave"}
        params1 == IF hasType THEN Append(params0, V("event_type", r.query["event_type"]))
                   ELSE params0
        where1 == IF hasType THEN Append(where0, P(" AND s.event_type = ", Len(params1)))
                  ELSE where0
    IN [whereClause |-> where1,
        query |-> << T("SELECT s.session_id, s.user_id, u.username, u.user_avatar, u.verification_status, s.joined_at, s.left_at, s.duration_seconds, s.event_type, s.is_currently_active FROM sessions s JOIN users u ON s.user_id = u.user_id WHERE ") >>
                  \o where1
                  \o << T(" ORDER BY s.joined_at DESC"),
                        P(" LIMIT ", Len(params1) + 1), P(" OFFSET ", Len(params1) + 2) >>,
        params |-> params1 \o << V("limit", Get(r.query, "limit", 100)),
                                 V("offset", Get(r.query, "offset", 0)) >>]

RoomTimelineRows(r) ==
    LET hasType == /\ Truthy(r.query, "event_type")
                   /\ r.query["event_type"] \in {"join", "leave"}
        here == Select(SessionsWithId, LAMBDA x :
                    /\ x.room_id = r.params["roomId"]
                    /\ HasUser(x.user_id)
                    /\ hasType => x.event_type = r.query["event_type"])
        sorted == SortBy(here, LAMBDA a, b : Desc(a.joined_at, b.joined_at))
        page == LimitOffset(sorted, NumParam(r.query, "limit", 100),
                            NumParam(r.query, "offset", 0))
    IN [i \in DOMAIN page |->
           [user_id |-> page[i].user_id, username |-> UserOf(page[i].user_id).username]
           @@ SessionRow(page[i])]

RoomTimeline(r, fail) ==
    LET b == RoomTimelineBuild(r)
        query == Q(b.query, b.params, 1, fail)
    IN IF fail = 1 THEN Failed("Failed to get timeline", <<query>>)
       ELSE Rows(RoomTimelineRows(r), <<query>>)

\* ------------------------------------------- 9. GET /rooms/:roomId/snapshots
\* The snapshots builder with the count query given the whole parameter array
RoomSnapshotsBuildUnsliced(r) ==
    LET where0 == << P("room_id = ", 1) >>
        params0 == << V("roomId", r.params["roomId"]) >>
        hasStart == Truthy(r.query, "start_date")
        params1 == IF hasStart THEN Append(params0, V("start_date", r.query["start_date"]))
                   ELSE params0
        where1 == IF hasStart THEN Append(where0, P(" AND snapshot_time >= ", Len(params1)))
                  ELSE where0
        hasEnd == Truthy(r.query, "end_date")
        params2 == IF hasEnd THEN Append(params1, V("end_date", r.query["end_date"]))
                   ELSE params1
        where2 == IF hasEnd THEN Append(where1, P(" AND snapshot_time <= ", Len(params2)))
                  ELSE where1
        params3 == params2 \o << V("limit", Get(r.query, "limit", 50)),
                                 V("offset", Get(r.query, "offset", 0)) >>
    IN [whereClause |-> where2,
        query |-> << T("SELECT snapshot_id, room_id, snapshot_time, participants_count, participants_json, is_active FROM room_snapshots WHERE ") >>
                  \o where2
                  \o << T(" ORDER BY snapshot_time DESC"),
                        P(" LIMIT ", Len(params2) + 1), P(" OFFSET ", Len(params2) + 2) >>,
        params |-> params3,
        countQuery |-> << T("SELECT COUNT(*) as total FROM room_snapshots WHERE ") >> \o where2,
        countParams |-> params3]

RoomSnapshotsBuild(r) ==
    LET where0 == << P("room_id = ", 1) >>
        params0 == << V("roomId", r.params["roomId"]) >>
        hasStart == Truthy(r.query, "start_date")
        params1 == IF hasStart THEN Append(params0, V("start_date", r.query["start_date"]))
                   ELSE params0
        where1 == IF hasStart THEN Append(where0, P(" AND snapshot_time >= ", Len(params1)))
                  ELSE where0
        hasEnd == Truthy(r.query, "end_date")
        params2 == IF hasEnd THEN Append(params1, V("end_date", r.query["end_date"]))
                   ELSE params1
        where2 == IF hasEnd THEN Append(where1, P(" AND snapshot_time <= ", Len(params2)))
                  ELSE where1
        params3 == params2 \o << V("limit", Get(r.query, "limit", 50)),
                                 V("offset", Get(r.query, "offset", 0)) >>
    IN [whereClause |-> where2,
        query |-> << T("SELECT snapshot_id, room_id, snapshot_time, participants_count, participants_json, is_active FROM room_snapshots WHERE ") >>
                  \o where2
                  \o << T(" ORDER BY snapshot_time DESC"),
                        P(" LIMIT ", Len(params2) + 1), P(" OFFSET ", Len(params2) + 2) >>,
        params |-> params3,
        countQuery |-> << T("SELECT COUNT(*) as total FROM room_snapshots WHERE ") >> \o where2,
        countParams |-> SubSeq(params3, 1, Len(params3) - 2)]

\* The snapshots the WHERE clause ranges over; a date is sent as its digit
RoomSnapshotsMatching(r) ==
    LET withId == [i \in DOMAIN room_snapshots |-> [snapshot_id |-> i] @@ room_snapshots[i]]
    IN Select(withId, LAMBDA x :
          /\ x.room_id = r.params["roomId"]
          /\ Truthy(r.query, "start_date") => x.snapshot_time >= ParseInt(r.query["start_date"])
          /\ Truthy(r.query, "end_date") => x.snapshot_time <= ParseInt(r.query["end_date"]))

\* The formatted rows: participants parsed, participants_json dropped
RoomSnapshotsRows(r) ==
    LET sorted == SortBy(RoomSnapshotsMatching(r),
                         LAMBDA a, b : Desc(a.snapshot_time, b.snapshot_time))
        page == LimitOffset(sorted, NumParam(r.query, "limit", 50),
                            NumParam(r.query, "offset", 0))
    IN [i \in DOMAIN page |->
           [snapshot_id |-> page[i].snapshot_id, room_id |-> page[i].room_id,
            snapshot_time |-> page[i].snapshot_time,
            participants_count |-> page[i].participants_count,
            is_active |-> page[i].is_active,
            participants |-> JsonParse(page[i].participants_json)]]

RoomSnapshots(r, fail) ==
    LET b == RoomSnapshotsBuild(r)
        q1 == Q(b.query, b.params, 1, fail)
        q2 == Q(b.countQuery, b.countParams, 2, fail)
        rows == RoomSnapshotsRows(r)
    IN IF fail = 1 THEN Failed("Failed to get snapshots", <<q1>>)
       ELSE IF fail = 2 THEN Failed("Failed to get snapshots", <<q1, q2>>)
       ELSE Reply(200, "object",
                  [snapshots |-> rows,
                   pagination |-> Pagination(Len(RoomSnapshotsMatching(r)),
                                             ParseIntOr(r.query, "limit", 50),
                                             ParseIntOr(r.query, "offset", 0),
                                             Len(rows))],
                  <<q1, q2>>, profile_views)

\* ------------------------------------- 10. GET /users/:user1Id/shared/:user2Id
SharedRoomsSql ==
    << P("SELECT r.room_id, r.language, r.topic, r.skill_level, r.is_active, COUNT(DISTINCT s1.session_id) as user1_sessions, COUNT(DISTINCT s2.session_id) as user2_sessions, COUNT(DISTINCT CASE WHEN s1.joined_at <= COALESCE(s2.left_at, NOW()) AND s2.joined_at <= COALESCE(s1.left_at, NOW()) THEN s1.session_id END) as overlap_count, MAX(LEAST(COALESCE(s1.left_at, NOW()), COALESCE(s2.left_at, NOW()))) as last_overlap_time, MIN(GREATEST(s1.joined_at, s2.joined_at)) as first_overlap_time FROM rooms r JOIN sessions s1 ON r.room_id = s1.room_id AND s1.user_id = ", 1),
       P(" JOIN sessions s2 ON r.room_id = s2.room_id AND s2.user_id = ", 2),
       P(" GROUP BY r.room_id, r.language, r.topic, r.skill_level, r.is_active HAVING COUNT(DISTINCT CASE WHEN s1.joined_at <= COALESCE(s2.left_at, NOW()) AND s2.joined_at <= COALESCE(s1.left_at, NOW()) THEN s1.session_id END) >= ", 3),
       T(" ORDER BY overlap_count DESC, last_overlap_time DESC") >>

\* COALESCE(left_at, NOW())
EndOf(x) == IF x.left_at = NULL THEN NOW ELSE x.left_at

\* s1.joined_at <= COALESCE(s2.left_at, NOW()) AND s2.joined_at <= COALESCE(s1.left_at, NOW())
Overlaps(s1, s2) == s1.joined_at <= EndOf(s2) /\ s2.joined_at <= EndOf(s1)

\* The joined rows (s1, s2) of one room: positions in sessions
JoinedPairs(roomId, user1Id, user2Id) ==
    {p \in (DOMAIN sessions) \X (DOMAIN sessions) :
        /\ sessions[p[1]].room_id = roomId /\ sessions[p[1]].user_id = user1Id
        /\ sessions[p[2]].room_id = roomId /\ sessions[p[2]].user_id = user2Id}

\* COUNT(DISTINCT CASE WHEN <overlap> THEN s1.session_id END)
OverlapCount(roomId, user1Id, user2Id) ==
    Cardinality({p[1] : p \in {x \in JoinedPairs(roomId, user1Id, user2Id) :
                                  Overlaps(sessions[x[1]], sessions[x[2]])}})

SharedRoomRow(room, user1Id, user2Id) ==
    LET pairs == JoinedPairs(room.room_id, user1Id, user2Id)
    IN [room_id |-> room.room_id, language |-> room.language, topic |-> room.topic,
        skill_level |-> room.skill_level, is_active |-> room.is_active,
        user1_sessions |-> Cardinality({p[1] : p \in pairs}),
        user2_sessions |-> Cardinality({p[2] : p \in pairs}),
        overlap_count |-> OverlapCount(room.room_id, user1Id, user2Id),
        last_overlap_time |->
            MaxOf({Min(EndOf(sessions[p[1]]), EndOf(sessions[p[2]])) : p \in pairs}),
        first_overlap_time |->
            MinOf({Max(sessions[p[1]].joined_at, sessions[p[2]].joined_at) : p \in pairs})]

\* The shared rooms without the HAVING threshold
SharedRoomsRowsNoHaving(user1Id, user2Id, minOverlaps) ==
    LET joined == Select(rooms, LAMBDA x : JoinedPairs(x.room_id, user1Id, user2Id) # {})
        grouped == [i \in DOMAIN joined |-> SharedRoomRow(joined[i], user1Id, user2Id)]
    IN SortBy(grouped, LAMBDA a, b :
          \/ a.overlap_count > b.overlap_count
          \/ /\ a.overlap_count = b.overlap_count
             /\ Desc(a.last_overlap_time, b.last_overlap_time))

SharedRoomsRows(user1Id, user2Id, minOverlaps) ==
    LET joined == Select(rooms, LAMBDA x : JoinedPairs(x.room_id, user1Id, user2Id) # {})
        grouped == [i \in DOMAIN joined |-> SharedRoomRow(joined[i], user1Id, user2Id)]
        having == Select(grouped, LAMBDA x : x.overlap_count >= minOverlaps)
    IN SortBy(having, LAMBDA a, b :
          \/ a.overlap_count > b.overlap_count
          \/ /\ a.overlap_count = b.overlap_count
             /\ Desc(a.last_overlap_time, b.last_overlap_time))

SharedRooms(r, fail) ==
    LET query == Q(SharedRoomsSql,
                   << V("user1Id", r.params["user1Id"]), V("user2Id", r.params["user2Id"]),
                      V("min_overlaps", Get(r.query, "min_overlaps", 1)) >>, 1, fail)
    IN IF fail = 1 THEN Failed("Failed to find shared rooms", <<query>>)
       ELSE Rows(SharedRoomsRows(r.params["user1Id"], r.params["user2Id"],
                                 NumParam(r.query, "min_overlaps", 1)), <<query>>)

\* ------------------------------------------- 11. GET /leaderboard/most-stalked
MostStalkedSql ==
    << P("SELECT u.user_id, u.username, u.user_avatar, u.followers_count, u.verification_status, u.supporter_level, COUNT(pv.view_id) as views_in_period, u.profile_views_count as total_views, MAX(pv.viewed_at) as last_viewed FROM users u LEFT JOIN profile_views pv ON u.user_id = pv.viewed_user_id AND pv.viewed_at >= NOW() - INTERVAL '1 day' * ", 1),
       T(" WHERE u.profile_views_count > 0 OR COUNT(pv.view_id) > 0 GROUP BY u.user_id, u.username, u.user_avatar, u.followers_count, u.verification_status, u.supporter_level, u.profile_views_count HAVING COUNT(pv.view_id) > 0 ORDER BY views_in_period DESC, total_views DESC"),
       P(" LIMIT ", 2) >>

\* The WHERE clause holds the aggregate COUNT(pv.view_id), which PostgreSQL
\* rejects when it plans the statement: the query fails on every call.
MostStalked(r, fail) ==
    Failed("Failed to get leaderboard",
           << [sql |-> MostStalkedSql,
               params |-> << V("days", Get(r.query, "days", 7)),
                             V("limit", Get(r.query, "limit", 100)) >>,
               outcome |-> "error"] >>)

\* ------------------------------------------- 12. GET /leaderboard/most-active
\* ORDER BY fragments of the leaderboard
\* The leaderboard order taken from the request as it comes
MostActiveOrderByUnchecked(query) ==
    IF Get(query, "by", "sessions") = "sessions" THEN "total_sessions DESC"
    ELSE Get(query, "by", "sessions")

MostActiveOrderBy(query) ==
    IF Get(query, "by", "sessions") = "time" THEN "total_time_seconds DESC"
    ELSE IF Get(query, "by", "sessions") = "rooms" THEN "rooms_visited DESC"
    ELSE "total_sessions DESC"

\* The leaderboard builder with the LIMIT placeholder numbered before the
\* limit is pushed
MostActiveBuildStaleLimit(r) ==
    LET hasDays == Truthy(r.query, "days")
        params1 == IF hasDays THEN << V("days", r.query["days"]) >> ELSE <<>>
        dateFilter == IF hasDays
                      THEN << P("WHERE s.joined_at >= NOW() - INTERVAL '1 day' * ", Len(params1)) >>
                      ELSE <<>>
    IN [dateFilter |-> dateFilter,
        orderBy |-> MostActiveOrderBy(r.query),
        query |-> << T("SELECT u.user_id, u.username, u.user_avatar, u.verification_status, u.supporter_level, u.followers_count, COUNT(DISTINCT s.session_id) as total_sessions, COALESCE(SUM(s.duration_seconds), 0)::BIGINT as total_time_seconds, COUNT(DISTINCT s.room_id) as rooms_visited, MAX(s.joined_at) as last_active, AVG(s.duration_seconds)::INTEGER as avg_session_duration FROM users u JOIN sessions s ON u.user_id = s.user_id ") >>
                  \o dateFilter
                  \o << T(" GROUP BY u.user_id, u.username, u.user_avatar, u.verification_status, u.supporter_level, u.followers_count ORDER BY "),
                        T(MostActiveOrderBy(r.query)),
                        P(" LIMIT ", Len(params1)) >>,
        params |-> Append(params1, V("limit", Get(r.query, "limit", 100)))]

MostActiveBuild(r) ==
    LET hasDays == Truthy(r.query, "days")
        params0 == <<>>
        params1 == IF hasDays THEN Append(params0, V("days", r.query["days"])) ELSE params0
        dateFilter == IF hasDays
                      THEN << P("WHERE s.joined_at >= NOW() - INTERVAL '1 day' * ", Len(params1)) >>
                      ELSE <<>>
        params2 == Append(params1, V("limit", Get(r.query, "limit", 100)))
    IN [dateFilter |-> dateFilter,
        orderBy |-> MostActiveOrderBy(r.query),
        query |-> << T("SELECT u.user_id, u.username, u.user_avatar, u.verification_status, u.supporter_level, u.followers_count, COUNT(DISTINCT s.session_id) as total_sessions, COALESCE(SUM(s.duration_seconds), 0)::BIGINT as total_time_seconds, COUNT(DISTINCT s.room_id) as rooms_visited, MAX(s.joined_at) as last_active, AVG(s.duration_seconds)::INTEGER as avg_session_duration FROM users u JOIN sessions s ON u.user_id = s.user_id ") >>
                  \o dateFilter
                  \o << T(" GROUP BY u.user_id, u.username, u.user_avatar, u.verification_status, u.supporter_level, u.followers_count ORDER BY "),
                        T(MostActiveOrderBy(r.query)),
                        P(" LIMIT ", Len(params2)) >>,
        params |-> params2]

\* s.joined_at >= NOW() - INTERVAL '1 <unit>' * $n, when the filter is present
Since(x, query, k) == Truthy(query, k) => x.joined_at >= NOW - ParseInt(query[k])

MostActiveRows(r) ==
    LET active == Select(users, LAMBDA u :
                      \E i \in DOMAIN sessions :
                          sessions[i].user_id = u.user_id /\ Since(sessions[i], r.query, "days"))
        mine(u) == Select(sessions, LAMBDA x :
                      x.user_id = u.user_id /\ Since(x, r.query, "days"))
        row(u) == [user_id |-> u.user_id, username |-> u.username,
                   followers_count |-> u.followers_count,
                   total_sessions |-> Len(mine(u)),
                   total_time_seconds |-> Sum(Durations(mine(u))),
                   rooms_visited |-> Cardinality({mine(u)[i].room_id : i \in DOMAIN mine(u)}),
                   last_active |-> MaxOf({mine(u)[i].joined_at : i \in DOMAIN mine(u)}),
                   avg_session_duration |-> AvgDuration(mine(u))]
        grouped == [i \in DOMAIN active |-> row(active[i])]
        by == Get(r.query, "by", "sessions")
        sorted == SortBy(grouped, LAMBDA a, b :
                      IF by = "time" THEN a.total_time_seconds > b.total_time_seconds
                      ELSE IF by = "rooms" THEN a.rooms_visited > b.rooms_visited
                      ELSE a.total_sessions > b.total_sessions)
    IN LimitOffset(sorted, NumParam(r.query, "limit", 100), 0)

MostActive(r, fail) ==
    LET b == MostActiveBuild(r)
        query == Q(b.query, b.params, 1, fail)
    IN IF fail = 1 THEN Failed("Failed to get most active users", <<query>>)
       ELSE Rows(MostActiveRows(r), <<query>>)

\* ------------------------------------------- 13. GET /rooms/trending
TrendingRoomsBuild(r) ==
    LET where0 == << P("s.joined_at >= NOW() - INTERVAL '1 hour' * ", 1) >>
        params0 == << V("hours", Get(r.query, "hours", 24)) >>
        hasLang == Truthy(r.query, "language")
        params1 == IF hasLang THEN Append(params0, V("language", r.query["language"]))
                   ELSE params0
        where1 == IF hasLang THEN Append(where0, P(" AND r.language = ", Len(params1)))
                  ELSE where0
        hasSkill == Truthy(r.query, "skill_level")
        params2 == IF hasSkill THEN Append(params1, V("skill_level", r.query["skill_level"]))
                   ELSE params1
        where2 == IF hasSkill THEN Append(where1, P(" AND r.skill_level = ", Len(params2)))
                  ELSE where1
        params3 == Append(params2, V("limit", Get(r.query, "limit", 20)))
    IN [whereClause |-> where2,
        query |-> << T("SELECT r.room_id, r.topic, r.language, r.second_language, r.skill_level, r.is_active, r.current_users_count, r.max_capacity, r.is_locked, r.creator_name, r.creator_avatar, r.creator_is_verified, COUNT(DISTINCT s.user_id) as unique_visitors, COUNT(s.session_id) as total_sessions, MAX(s.joined_at) as last_activity FROM rooms r JOIN sessions s ON r.room_id = s.room_id WHERE ") >>
                  \o where2
                  \o << T(" GROUP BY r.room_id, r.topic, r.language, r.second_language, r.skill_level, r.is_active, r.current_users_count, r.max_capacity, r.is_locked, r.creator_name, r.creator_avatar, r.creator_is_verified ORDER BY unique_visitors DESC, total_sessions DESC"),
                        P(" LIMIT ", Len(params3)) >>,
        params |-> params3]

\* language = $n AND skill_level = $m, each when its filter is present
RoomFilter(room, query) ==
    /\ Truthy(query, "language") => room.language = query["language"]
    /\ Truthy(query, "skill_level") => room.skill_level = query["skill_level"]

TrendingRoomsRows(r) ==
    LET hours == NumParam(r.query, "hours", 24)
        recent(room) == Select(sessions, LAMBDA x :
                           x.room_id = room.room_id /\ x.joined_at >= NOW - hours)
        hot == Select(rooms, LAMBDA room : recent(room) # <<>> /\ RoomFilter(room, r.query))
        row(room) == [room_id |-> room.room_id, topic |-> room.topic,
                      language |-> room.language, skill_level |-> room.skill_level,
                      is_active |-> room.is_active,
                      current_users_count |-> room.current_users_count,
                      max_capacity |-> room.max_capacity,
                      unique_visitors |->
                          Cardinality({recent(room)[i].user_id : i \in DOMAIN recent(room)}),
                      total_sessions |-> Len(recent(room)),
                      last_activity |->
                          MaxOf({recent(room)[i].joined_at : i \in DOMAIN recent(room)})]
        grouped == [i \in DOMAIN hot |-> row(hot[i])]
        sorted == SortBy(grouped, LAMBDA a, b :
                      \/ a.unique_visitors > b.unique_visitors
                      \/ /\ a.unique_visitors = b.unique_visitors
                         /\ a.total_sessions > b.total_sessions)
    IN LimitOffset(sorted, NumParam(r.query, "limit", 20), 0)

TrendingRooms(r, fail) ==
    LET b == TrendingRoomsBuild(r)
        query == Q(b.query, b.params, 1, fail)
    IN IF fail = 1 THEN Failed("Failed to get trending rooms", <<query>>)
       ELSE Rows(TrendingRoomsRows(r), <<query>>)

\* ------------------------------------------- 14. GET /rooms/active
ActiveRoomsOrderBy(query) ==
    IF Get(query, "sort", "users") = "recent" THEN "last_activity DESC"
    ELSE IF Get(query, "sort", "users") = "popular"
         THEN "current_users_count DESC, last_activity DESC"
    ELSE "current_users_count DESC"

ActiveRoomsBuild(r) ==
    LET where0 == << T("is_active = true") >>
        params0 == <<>>
        hasLang == Truthy(r.query, "language")
        params1 == IF hasLang THEN Append(params0, V("language", r.query["language"]))
                   ELSE params0
        where1 == IF hasLang THEN Append(where0, P(" AND language = ", Len(params1)))
                  ELSE where0
        hasSkill == Truthy(r.query, "skill_level")
        params2 == IF hasSkill THEN Append(params1, V("skill_level", r.query["skill_level"]))
                   ELSE params1
        where2 == IF hasSkill THEN Append(where1, P(" AND skill_level = ", Len(params2)))
                  ELSE where1
        params3 == Append(params2, V("limit", Get(r.query, "limit", 50)))
    IN [whereClause |-> where2,
        orderBy |-> ActiveRoomsOrderBy(r.query),
        query |-> << T("SELECT room_id, topic, language, second_language, skill_level, current_users_count, max_capacity, is_full, is_empty, is_locked, mic_allowed, mic_required, no_mic, creator_name, creator_avatar, creator_is_verified, last_activity, allows_unlimited FROM rooms WHERE ") >>
                  \o where2
                  \o << T(" ORDER BY "), T(ActiveRoomsOrderBy(r.query)),
                        P(" LIMIT ", Len(params3)) >>,
        params |-> params3]

RoomColumns ==
    {"room_id", "topic", "language", "skill_level", "is_active", "current_users_count",
     "max_capacity", "last_activity"}

ActiveRoomsRows(r) ==
    LET active == Select(rooms, LAMBDA room :
                      room.is_active = "true" /\ RoomFilter(room, r.query))
        sort == Get(r.query, "sort", "users")
        sorted == SortBy(active, LAMBDA a, b :
                      IF sort = "recent" THEN Desc(a.last_activity, b.last_activity)
                      ELSE IF sort = "popular"
                      THEN \/ Desc(a.current_users_count, b.current_users_count)
                           \/ /\ a.current_users_count = b.current_users_count
                              /\ Desc(a.last_activity, b.last_activity)
                      ELSE Desc(a.current_users_count, b.current_users_count))
    IN ProjectAll(LimitOffset(sorted, NumParam(r.query, "limit", 50), 0),
                  RoomColumns \ {"is_active"})

ActiveRooms(r, fail) ==
    LET b == ActiveRoomsBuild(r)
        query == Q(b.query, b.params, 1, fail)
    IN IF fail = 1 THEN Failed("Failed to get active rooms", <<query>>)
       ELSE Rows(ActiveRoomsRows(r), <<query>>)

\* ------------------------------------------- 15. GET /rooms/search
SearchRoomsSql(activeOnly) ==
    << P("SELECT room_id, topic, language, second_language, skill_level, is_active, current_users_count, max_capacity, is_locked, last_activity, creator_name FROM rooms WHERE (LOWER(topic) LIKE LOWER(", 1),
       P(") OR LOWER(language) LIKE LOWER(", 1), T("))") >>
    \o (IF activeOnly THEN << T(" AND is_active = true") >> ELSE <<>>)
    \o << T(" ORDER BY is_active DESC, current_users_count DESC, last_activity DESC"),
          P(" LIMIT ", 2) >>

\* The position of a boolean in an ascending order: false < true < NULL
BoolRank(b) == CASE b = "false" -> 0 [] b = "true" -> 1 [] b = "null" -> 2

SearchRoomsBefore(a, b) ==
    \/ BoolRank(a.is_active) > BoolRank(b.is_active)
    \/ /\ a.is_active = b.is_active
       /\ \/ Desc(a.current_users_count, b.current_users_count)
          \/ /\ a.current_users_count = b.current_users_count
             /\ Desc(a.last_activity, b.last_activity)

SearchRoomsRows(q, activeOnly, limit) ==
    LET match(room) ==
            /\ \/ Contains(Lower(room.topic), Lower(q))
               \/ Contains(Lower(room.language), Lower(q))
            /\ activeOnly => room.is_active = "true"
    IN ProjectAll(LimitOffset(SortBy(Select(rooms, match), SearchRoomsBefore), limit, 0),
                  RoomColumns)

SearchRooms(r, fail) ==
    LET q == r.query["q"]
        activeOnly == Get(r.query, "active_only", "false") = "true"
        query == Q(SearchRoomsSql(activeOnly),
                   << V("%q%", <<"%", q, "%">>), V("limit", Get(r.query, "limit", 20)) >>,
                   1, fail)
    IN IF ~Truthy(r.query, "q") \/ StrLen(q) < 2 THEN Rows(<<>>, <<>>)
       ELSE IF fail = 1 THEN Failed("Failed to search rooms", <<query>>)
       ELSE Rows(SearchRoomsRows(q, activeOnly, NumParam(r.query, "limit", 20)), <<query>>)

\* ------------------------------------------- 16. GET /stats
StatsSql ==
    << T("SELECT (SELECT COUNT(*) FROM users) as total_users, (SELECT COUNT(*) FROM rooms) as total_rooms, (SELECT COUNT(*) FROM rooms WHERE is_active = true) as active_rooms, (SELECT COUNT(*) FROM sessions WHERE is_currently_active = true) as active_sessions, (SELECT COUNT(*) FROM sessions) as total_sessions, (SELECT COUNT(*) FROM profile_views WHERE viewed_at >= NOW() - INTERVAL '24 hours') as views_24h, (SELECT COUNT(*) FROM room_snapshots) as total_snapshots, (SELECT COUNT(DISTINCT user_id) FROM sessions WHERE joined_at >= NOW() - INTERVAL '24 hours') as active_users_24h, (SELECT COUNT(DISTINCT user_id) FROM sessions WHERE joined_at >= NOW() - INTERVAL '7 days') as active_users_7d, (SELECT COALESCE(SUM(duration_seconds), 0)::BIGINT FROM sessions) as total_watch_time_seconds") >>

\* Every stored timestamp lies within the model's last 24 hours.
StatsRow ==
    [total_users |-> Len(users),
     total_rooms |-> Len(rooms),
     active_rooms |-> Len(Select(rooms, LAMBDA x : x.is_active = "true")),
     active_sessions |-> Len(Select(sessions, LAMBDA x : x.is_currently_active)),
     total_sessions |-> Len(sessions),
     views_24h |-> Len(profile_views),
     total_snapshots |-> Len(room_snapshots),
     active_users_24h |-> Cardinality({sessions[i].user_id : i \in DOMAIN sessions}),
     active_users_7d |-> Cardinality({sessions[i].user_id : i \in DOMAIN sessions}),
     total_watch_time_seconds |-> Sum(Durations(sessions))]

Stats(r, fail) ==
    LET query == Q(StatsSql, <<>>, 1, fail)
    IN IF fail = 1 THEN Failed("Failed to get stats", <<query>>)
       ELSE Reply(200, "object", StatsRow, <<query>>, profile_views)

\* ------------------------------------------- 17. GET /stats/languages
StatsLanguagesBuild(r) ==
    LET hasDays == Truthy(r.query, "days")
        params0 == <<>>
        params1 == IF hasDays THEN Append(params0, V("days", r.query["days"])) ELSE params0
        \* dateFilter.replace('WHERE', 'AND')
        dateFilter == IF hasDays
                      THEN << P("AND s.joined_at >= NOW() - INTERVAL '1 day' * ", Len(params1)) >>
                      ELSE <<>>
    IN [dateFilter |-> dateFilter,
        query |-> << T("SELECT r.language, COUNT(DISTINCT r.room_id) as room_count, COUNT(DISTINCT s.user_id) as unique_users, COUNT(s.session_id) as total_sessions, COALESCE(SUM(s.duration_seconds), 0)::BIGINT as total_time_seconds, AVG(s.duration_seconds)::INTEGER as avg_session_duration FROM rooms r LEFT JOIN sessions s ON r.room_id = s.room_id ") >>
                  \o dateFilter
                  \o << T(" GROUP BY r.language ORDER BY unique_users DESC, total_sessions DESC") >>,
        params |-> params1]

StatsLanguagesRows(r) ==
    LET langs == {rooms[k].language : k \in DOMAIN rooms}
        of(l) == Select(sessions, LAMBDA x :
                    /\ \E k \in DOMAIN rooms :
                          rooms[k].room_id = x.room_id /\ rooms[k].language = l
                    /\ Since(x, r.query, "days"))
        row(l) == [language |-> l,
                   room_count |-> Cardinality({k \in DOMAIN rooms : rooms[k].language = l}),
                   unique_users |-> Cardinality({of(l)[i].user_id : i \in DOMAIN of(l)}),
                   total_sessions |-> Len(of(l)),
                   total_time_seconds |-> Sum(Durations(of(l))),
                   avg_session_duration |-> AvgDuration(of(l))]
        \* one group per language, in the order of its first room
        first == FilterIdx(Len(rooms), LAMBDA k :
                    \A j \in 1..(k - 1) : rooms[j].language # rooms[k].language)
        grouped == [i \in DOMAIN first |-> row(rooms[first[i]].language)]
    IN SortBy(grouped, LAMBDA a, b :
          \/ a.unique_users > b.unique_users
          \/ a.unique_users = b.unique_users /\ a.total_sessions > b.total_sessions)

StatsLanguages(r, fail) ==
    LET b == StatsLanguagesBuild(r)
        query == Q(b.query, b.params, 1, fail)
    IN IF fail = 1 THEN Failed("Failed to get language statistics", <<query>>)
       ELSE Rows(StatsLanguagesRows(r), <<query>>)

\* ------------------------------------------- 18. GET /stats/skills
StatsSkillsSql ==
    << T("SELECT skill_level, COUNT(DISTINCT room_id) as room_count, COUNT(DISTINCT s.user_id) as unique_users, COUNT(s.session_id) as total_sessions, AVG(s.duration_seconds)::INTEGER as avg_session_duration FROM rooms r LEFT JOIN sessions s ON r.room_id = s.room_id GROUP BY skill_level ORDER BY total_sessions DESC") >>

\* COUNT(DISTINCT room_id) names a column that both rooms and sessions have:
\* PostgreSQL rejects the statement as ambiguous on every call.
StatsSkills(r, fail) ==
    Failed("Failed to get skill level statistics",
           << [sql |-> StatsSkillsSql, params |-> <<>>, outcome |-> "error"] >>)

\* ------------------------------------------- 19. POST /users/:userId/view
UserCheckSql == << P("SELECT user_id FROM users WHERE user_id = ", 1) >>

\* The view endpoint without the branch on an empty existence check
RecordViewUnchecked(r, fail, ins) ==
    LET userId == r.params["userId"]
        check == Q(<< P("SELECT user_id FROM users WHERE user_id = ", 1) >>,
                   << V("userId", userId) >>, 1, fail)
        rec == recordProfileView(userId, ins)
    IN IF fail = 1 THEN Failed("Failed to record view", <<check>>)
       ELSE IF rec.threw THEN Failed("Failed to record view", <<check, rec.query>>)
       ELSE Reply(200, "object", [success |-> TRUE, message |-> "Profile view recorded"],
                  <<check, rec.query>>, rec.views)

RecordView(r, fail, ins) ==
    LET userId == r.params["userId"]
        check == Q(UserCheckSql, << V("userId", userId) >>, 1, fail)
        rec == recordProfileView(userId, ins)
    IN IF fail = 1 THEN Failed("Failed to record view", <<check>>)
       ELSE IF ~HasUser(userId) THEN NotFound("User not found", <<check>>)
       ELSE IF rec.threw THEN Failed("Failed to record view", <<check, rec.query>>)
       ELSE Reply(200, "object", [success |-> TRUE, message |-> "Profile view recorded"],
                  <<check, rec.query>>, rec.views)

\* ------------------------------------------- 20. GET /rooms/:roomId/analytics
RoomAnalyticsSql ==
    << P("SELECT date, total_participants, unique_participants, total_sessions, avg_session_duration_seconds, peak_concurrent_users FROM room_analytics WHERE room_id = ", 1),
       P(" AND date >= CURRENT_DATE - ", 2), T("::INTEGER ORDER BY date DESC") >>

RoomAnalyticsRows(roomId, days) ==
    LET mine == Select(room_analytics, LAMBDA x : x.room_id = roomId /\ x.date >= NOW - days)
        sorted == SortBy(mine, LAMBDA a, b : Desc(a.date, b.date))
    IN ProjectAll(sorted, {"date", "total_participants", "unique_participants",
                           "total_sessions", "avg_session_duration_seconds",
                           "peak_concurrent_users"})

RoomAnalytics(r, fail) ==
    LET query == Q(RoomAnalyticsSql,
                   << V("roomId", r.params["roomId"]), V("days", Get(r.query, "days", 30)) >>,
                   1, fail)
    IN IF fail = 1 THEN Failed("Failed to get room analytics", <<query>>)
       ELSE Rows(RoomAnalyticsRows(r.params["roomId"], NumParam(r.query, "days", 30)),
                 <<query>>)

\* ------------------------------------------- 21. GET /health
\* The health check answering a failed probe like the other handlers do
HealthAsServerError(r, fail) ==
    LET probe == Q(<< T("SELECT 1") >>, <<>>, 1, fail)
    IN IF fail = 1
       THEN Failed("Health check failed", <<probe>>)
       ELSE Reply(200, "object", [status |-> "healthy", database |-> "connected"],
                  <<probe>>, profile_views)

Health(r, fail) ==
    LET probe == Q(<< T("SELECT 1") >>, <<>>, 1, fail)
    IN IF fail = 1
       THEN Reply(503, "object",
                  [status |-> "unhealthy", database |-> "disconnected",
                   error |-> ErrorMessage], <<probe>>, profile_views)
       ELSE Reply(200, "object", [status |-> "healthy", database |-> "connected"],
                  <<probe>>, profile_views)

\* ------------------------------------------------------------------------
\* The earlier router (src/unnamed/part_001).  Its handlers answer a failure
\* with { error } alone.
\* catch (error) { res.status(500).json({ error }) }
LegacyFailed(msg, queries) ==
    Reply(500, "object", [error |-> msg], queries, profile_views)

LegacyUsersSearchSql ==
    << P("SELECT user_id, username, user_avatar, followers_count, verification_status, last_seen FROM users WHERE LOWER(username) LIKE LOWER(", 1),
       P(") OR LOWER(user_id) LIKE LOWER(", 1),
       T(") ORDER BY followers_count DESC LIMIT 20") >>

LegacyUsersSearchRows(q) ==
    LET match(u) == \/ Contains(Lower(u.username), Lower(q))
                    \/ Contains(Lower(u.user_id), Lower(q))
        sorted == SortBy(Select(users, match),
                         LAMBDA a, b : Desc(a.followers_count, b.followers_count))
    IN ProjectAll(LimitOffset(sorted, 20, 0),
                  {"user_id", "username", "followers_count", "last_seen"})

LegacyUsersSearch(r, fail) ==
    LET q == r.query["q"]
        query == Q(LegacyUsersSearchSql, << V("%q%", <<"%", q, "%">>) >>, 1, fail)
    IN IF ~Truthy(r.query, "q") \/ StrLen(q) < 2 THEN Rows(<<>>, <<>>)
       ELSE IF fail = 1 THEN LegacyFailed("Search failed", <<query>>)
       ELSE Rows(LegacyUsersSearchRows(q), <<query>>)

LegacyGetUserSql ==
    << P("SELECT user_id, username, user_avatar, followers_count, following_count, friends_count, verification_status, first_seen, last_seen, profile_views_count FROM users WHERE user_id = ", 1) >>

LegacyGetUser(r, fail) ==
    LET userId == r.params["userId"]
        query == Q(LegacyGetUserSql, << V("userId", userId) >>, 1, fail)
        user == UserOf(userId)
    IN IF fail = 1 THEN LegacyFailed("Failed to get user", <<query>>)
       ELSE IF ~HasUser(userId) THEN NotFound("User not found", <<query>>)
       ELSE Reply(200, "object",
                  [user_id |-> user.user_id, username |-> user.username,
                   last_seen |-> user.last_seen,
                   followers_count |-> OrZero(user.followers_count),
                   following_count |-> OrZero(user.following_count),
                   friends_count |-> OrZero(user.friends_count),
                   profile_views_count |-> OrZero(user.profile_views_count)],
                  <<query>>, profile_views)

LegacyUserRoomsSql ==
    << P("SELECT DISTINCT ON (r.room_id) r.room_id, r.language, r.skill_level, r.topic, r.is_active, r.current_users_count, MAX(s.joined_at) as last_visit, COUNT(s.session_id) as total_visits FROM sessions s JOIN rooms r ON s.room_id = r.room_id WHERE s.user_id = ", 1),
       T(" GROUP BY r.room_id, r.language, r.skill_level, r.topic, r.is_active, r.current_users_count ORDER BY r.room_id, last_visit DESC"),
       P(" LIMIT ", 2), P(" OFFSET ", 3) >>

\* The position of a stored room_id in the collation order of ORDER BY r.room_id
CollateRoom(rid) == CASE rid = "r1" -> 1 [] rid = "r2" -> 2

LegacyUserRoomsRows(userId, limit, offset) ==
    LET visited == Select(rooms, LAMBDA room :
                      \E i \in DOMAIN sessions :
                          sessions[i].user_id = userId /\ sessions[i].room_id = room.room_id)
        sorted == SortBy(visited, LAMBDA a, b : CollateRoom(a.room_id) < CollateRoom(b.room_id))
        page == LimitOffset(sorted, limit, offset)
    IN [i \in DOMAIN page |->
           Project(UserRoomsRow(page[i], userId),
                   {"room_id", "language", "skill_level", "topic", "is_active",
                    "current_users_count", "last_visit", "total_visits"})]

LegacyUserRooms(r, fail) ==
    LET query == Q(LegacyUserRoomsSql,
                   << V("userId", r.params["userId"]), V("limit", Get(r.query, "limit", 50)),
                      V("offset", Get(r.query, "offset", 0)) >>, 1, fail)
    IN IF fail = 1 THEN LegacyFailed("Failed to get rooms", <<query>>)
       ELSE Rows(LegacyUserRoomsRows(r.params["userId"], NumParam(r.query, "limit", 50),
                                     NumParam(r.query, "offset", 0)), <<query>>)

LegacyUserRoomSessionsSql ==
    << P("SELECT session_id, joined_at, left_at, session_duration, is_currently_active, event_type FROM sessions WHERE user_id = ", 1),
       P(" AND room_id = ", 2), T(" ORDER BY joined_at DESC LIMIT 100") >>

LegacyUserRoomSessions(r, fail) ==
    LET query == Q(LegacyUserRoomSessionsSql,
                   << V("userId", r.params["userId"]), V("roomId", r.params["roomId"]) >>,
                   1, fail)
    IN IF fail = 1 THEN LegacyFailed("Failed to get sessions", <<query>>)
       ELSE Rows(UserRoomSessionsRows(r.params["userId"], r.params["roomId"], 100, 0),
                 <<query>>)

LegacyGetRoomSql ==
    << P("SELECT room_id, language, skill_level, topic, max_capacity, is_active, is_full, is_empty, current_users_count, total_participants, view_count, peak_users, peak_time, first_seen, last_activity FROM rooms WHERE room_id = ", 1) >>

LegacyGetRoom(r, fail) ==
    LET roomId == r.params["roomId"]
        query == Q(LegacyGetRoomSql, << V("roomId", roomId) >>, 1, fail)
        found == Select(rooms, LAMBDA x : x.room_id = roomId)
    IN IF fail = 1 THEN LegacyFailed("Failed to get room", <<query>>)
       ELSE IF found = <<>> THEN NotFound("Room not found", <<query>>)
       ELSE Reply(200, "object", found[1], <<query>>, profile_views)

LegacyRoomParticipantsSql ==
    << P("SELECT u.user_id, u.username, u.user_avatar, u.followers_count, s.joined_at FROM sessions s JOIN users u ON s.user_id = u.user_id WHERE s.room_id = ", 1),
       T(" AND s.is_currently_active = true ORDER BY s.joined_at ASC") >>

LegacyRoomParticipants(r, fail) ==
    LET query == Q(LegacyRoomParticipantsSql, << V("roomId", r.params["roomId"]) >>, 1, fail)
    IN IF fail = 1 THEN LegacyFailed("Failed to get participants", <<query>>)
       ELSE Rows(CurrentParticipantsRows(r.params["roomId"]), <<query>>)

LegacyRoomTimelineSql ==
    << P("SELECT s.session_id, s.user_id, u.username, s.joined_at, s.left_at, s.is_currently_active FROM sessions s JOIN users u ON s.user_id = u.user_id WHERE s.room_id = ", 1),
       P(" ORDER BY s.joined_at DESC LIMIT ", 2) >>

LegacyRoomTimelineRows(roomId, limit) ==
    LET here == Select(SessionsWithId, LAMBDA x : x.room_id = roomId /\ HasUser(x.user_id))
        sorted == SortBy(here, LAMBDA a, b : Desc(a.joined_at, b.joined_at))
        page == LimitOffset(sorted, limit, 0)
    IN [i \in DOMAIN page |->
           [session_id |-> page[i].session_id, user_id |-> page[i].user_id,
            username |-> UserOf(page[i].user_id).username,
            joined_at |-> page[i].joined_at, left_at |-> page[i].left_at,
            is_currently_active |-> page[i].is_currently_active]]

LegacyRoomTimeline(r, fail) ==
    LET query == Q(LegacyRoomTimelineSql,
                   << V("roomId", r.params["roomId"]), V("limit", Get(r.query, "limit", 100)) >>,
                   1, fail)
    IN IF fail = 1 THEN LegacyFailed("Failed to get timeline", <<query>>)
       ELSE Rows(LegacyRoomTimelineRows(r.params["roomId"], NumParam(r.query, "limit", 100)),
                 <<query>>)

LegacySharedRoomsSql ==
    << P("SELECT r.room_id, r.language, r.topic, r.skill_level, COUNT(DISTINCT s1.session_id) as user1_sessions, COUNT(DISTINCT s2.session_id) as user2_sessions, MAX(LEAST(COALESCE(s1.left_at, NOW()), COALESCE(s2.left_at, NOW()))) as last_overlap FROM rooms r JOIN sessions s1 ON r.room_id = s1.room_id AND s1.user_id = ", 1),
       P(" JOIN sessions s2 ON r.room_id = s2.room_id AND s2.user_id = ", 2),
       T(" WHERE s1.joined_at <= COALESCE(s2.left_at, NOW()) AND s2.joined_at <= COALESCE(s1.left_at, NOW()) GROUP BY r.room_id, r.language, r.topic, r.skill_level ORDER BY last_overlap DESC") >>

LegacySharedRoomsRows(user1Id, user2Id) ==
    LET pairs(room) == {p \in JoinedPairs(room.room_id, user1Id, user2Id) :
                           Overlaps(sessions[p[1]], sessions[p[2]])}
        shared == Select(rooms, LAMBDA room : pairs(room) # {})
        row(room) ==
            [room_id |-> room.room_id, language |-> room.language, topic |-> room.topic,
             skill_level |-> room.skill_level,
             user1_sessions |-> Cardinality({p[1] : p \in pairs(room)}),
             user2_sessions |-> Cardinality({p[2] : p \in pairs(room)}),
             last_overlap |->
                 MaxOf({Min(EndOf(sessions[p[1]]), EndOf(sessions[p[2]])) : p \in pairs(room)})]
        grouped == [i \in DOMAIN shared |-> row(shared[i])]
    IN SortBy(grouped, LAMBDA a, b : Desc(a.last_overlap, b.last_overlap))

LegacySharedRooms(r, fail) ==
    LET query == Q(LegacySharedRoomsSql,
                   << V("user1Id", r.params["user1Id"]), V("user2Id", r.params["user2Id"]) >>,
                   1, fail)
    IN IF fail = 1 THEN LegacyFailed("Failed to find shared rooms", <<query>>)
       ELSE Rows(LegacySharedRoomsRows(r.params["user1Id"], r.params["user2Id"]), <<query>>)

LegacyMostStalkedSql ==
    << T("SELECT u.user_id, u.username, u.user_avatar, u.followers_count, COUNT(pv.view_id) as views_last_7_days, u.profile_views_count as total_views FROM users u LEFT JOIN profile_views pv ON u.user_id = pv.viewed_user_id AND pv.viewed_at >= NOW() - INTERVAL '7 days' GROUP BY u.user_id, u.username, u.user_avatar, u.followers_count, u.profile_views_count ORDER BY views_last_7_days DESC LIMIT 100") >>

LegacyMostStalkedRows ==
    LET views(u) == Cardinality({i \in DOMAIN profile_views :
                                    profile_views[i].viewed_user_id = u.user_id})
        grouped == [i \in DOMAIN users |->
                       [user_id |-> users[i].user_id, username |-> users[i].username,
                        followers_count |-> users[i].followers_count,
                        views_last_7_days |-> views(users[i]),
                        total_views |-> users[i].profile_views_count]]
    IN LimitOffset(SortBy(grouped, LAMBDA a, b : a.views_last_7_days > b.views_last_7_days),
                   100, 0)

LegacyMostStalked(r, fail) ==
    LET query == Q(LegacyMostStalkedSql, <<>>, 1, fail)
    IN IF fail = 1 THEN LegacyFailed("Failed to get leaderboard", <<query>>)
       ELSE Rows(LegacyMostStalkedRows, <<query>>)

LegacyStatsSql ==
    << T("SELECT (SELECT COUNT(*) FROM users) as total_users, (SELECT COUNT(*) FROM rooms) as total_rooms, (SELECT COUNT(*) FROM rooms WHERE is_active = true) as active_rooms, (SELECT COUNT(*) FROM sessions WHERE is_currently_active = true) as active_sessions, (SELECT COUNT(*) FROM sessions) as total_sessions") >>

LegacyStats(r, fail) ==
    LET query == Q(LegacyStatsSql, <<>>, 1, fail)
    IN IF fail = 1 THEN LegacyFailed("Failed to get stats", <<query>>)
       ELSE Reply(200, "object",
                  Project(StatsRow, {"total_users", "total_rooms", "active_rooms",
                                     "active_sessions", "total_sessions"}),
                  <<query>>, profile_views)

\* ----------------------------------------------------------------- router
\* A segment of a route path: a literal, or a named parameter (:name)
Lit(s) == [kind |-> "lit", name |-> s]
Prm(s) == [kind |-> "param", name |-> s]

Route(method, pattern, h) == [method |-> method, pattern |-> pattern, handler |-> h]

\* router.get / router.post calls of src/routes/api.js, in registration order
Routes ==
    << Route("GET", <<Lit("users"), Lit("search")>>, "UsersSearch"),
       Route("GET", <<Lit("users"), Prm("userId")>>, "GetUser"),
       Route("GET", <<Lit("users"), Prm("userId"), Lit("history")>>, "UserHistory"),
       Route("GET", <<Lit("users"), Prm("userId"), Lit("rooms")>>, "UserRooms"),
       Route("GET", <<Lit("users"), Prm("userId"), Lit("rooms"), Prm("roomId"), Lit("sessions")>>,
             "UserRoomSessions"),
       Route("GET", <<Lit("rooms"), Prm("roomId")>>, "GetRoom"),
       Route("GET", <<Lit("rooms"), Prm("roomId"), Lit("participants")>>, "RoomParticipants"),
       Route("GET", <<Lit("rooms"), Prm("roomId"), Lit("timeline")>>, "RoomTimeline"),
       Route("GET", <<Lit("rooms"), Prm("roomId"), Lit("snapshots")>>, "RoomSnapshots"),
       Route("GET", <<Lit("users"), Prm("user1Id"), Lit("shared"), Prm("user2Id")>>, "SharedRooms"),
       Route("GET", <<Lit("leaderboard"), Lit("most-stalked")>>, "MostStalked"),
       Route("GET", <<Lit("leaderboard"), Lit("most-active")>>, "MostActive"),
       Route("GET", <<Lit("rooms"), Lit("trending")>>, "TrendingRooms"),
       Route("GET", <<Lit("rooms"), Lit("active")>>, "ActiveRooms"),
       Route("GET", <<Lit("rooms"), Lit("search")>>, "SearchRooms"),
       Route("GET", <<Lit("stats")>>, "Stats"),
       Route("GET", <<Lit("stats"), Lit("languages")>>, "StatsLanguages"),
       Route("GET", <<Lit("stats"), Lit("skills")>>, "StatsSkills"),
       Route("POST", <<Lit("users"), Prm("userId"), Lit("view")>>, "RecordView"),
       Route("GET", <<Lit("rooms"), Prm("roomId"), Lit("analytics")>>, "RoomAnalytics"),
       Route("GET", <<Lit("health")>>, "Health") >>

\* router.get calls of src/unnamed/part_001, in registration order
LegacyRoutes ==
    << Route("GET", <<Lit("users"), Lit("search")>>, "LegacyUsersSearch"),
       Route("GET", <<Lit("users"), Prm("userId")>>, "LegacyGetUser"),
       Route("GET", <<Lit("users"), Prm("userId"), Lit("rooms")>>, "LegacyUserRooms"),
       Route("GET", <<Lit("users"), Prm("userId"), Lit("rooms"), Prm("roomId"), Lit("sessions")>>,
             "LegacyUserRoomSessions"),
       Route("GET", <<Lit("rooms"), Prm("roomId")>>, "LegacyGetRoom"),
       Route("GET", <<Lit("rooms"), Prm("roomId"), Lit("participants")>>,
             "LegacyRoomParticipants"),
       Route("GET", <<Lit("rooms"), Prm("roomId"), Lit("timeline")>>, "LegacyRoomTimeline"),
       Route("GET", <<Lit("users"), Prm("user1Id"), Lit("shared"), Prm("user2Id")>>,
             "LegacySharedRooms"),
       Route("GET", <<Lit("leaderboard"), Lit("most-stalked")>>, "LegacyMostStalked"),
       Route("GET", <<Lit("stats")>>, "LegacyStats") >>

\* A route's path matches: same length, every literal segment equal, a
\* parameter taking any segment
Matches(route, method, path) ==
    /\ route.method = method
    /\ Len(route.pattern) = Len(path)
    /\ \A i \in DOMAIN path :
          route.pattern[i].kind = "param" \/ route.pattern[i].name = path[i]

\* req.params as the matching route binds them
ParamsOf(route, path) ==
    LET names == {route.pattern[i].name : i \in {k \in DOMAIN path :
                                                    route.pattern[k].kind = "param"}}
    IN [n \in names |->
           path[CHOOSE i \in DOMAIN path :
                    route.pattern[i].kind = "param" /\ route.pattern[i].name = n]]

\* The first route, in registration order, that matches; 0 when none does
Dispatch(routes, method, path) ==
    LET hits == {i \in DOMAIN routes : Matches(routes[i], method, path)}
    IN IF hits = {} THEN 0 ELSE CHOOSE i \in hits : \A j \in hits : i <= j

\* The handler function registered under a name, applied to a request and to
\* the outcomes of its storage calls
Handle(h, r, fail, ins, pick) ==
    CASE h = "UsersSearch" -> UsersSearch(r, fail)
      [] h = "GetUser" -> GetUser(r, fail, ins, pick)
      [] h = "UserHistory" -> UserHistory(r, fail)
      [] h = "UserRooms" -> UserRooms(r, fail)
      [] h = "UserRoomSessions" -> UserRoomSessions(r, fail)
      [] h = "GetRoom" -> GetRoom(r, fail)
      [] h = "RoomParticipants" -> RoomParticipants(r, fail)
      [] h = "RoomTimeline" -> RoomTimeline(r, fail)
      [] h = "RoomSnapshots" -> RoomSnapshots(r, fail)
      [] h = "SharedRooms" -> SharedRooms(r, fail)
      [] h = "MostStalked" -> MostStalked(r, fail)
      [] h = "MostActive" -> MostActive(r, fail)
      [] h = "TrendingRooms" -> TrendingRooms(r, fail)
      [] h = "ActiveRooms" -> ActiveRooms(r, fail)
      [] h = "SearchRooms" -> SearchRooms(r, fail)
      [] h = "Stats" -> Stats(r, fail)
      [] h = "StatsLanguages" -> StatsLanguages(r, fail)
      [] h = "StatsSkills" -> StatsSkills(r, fail)
      [] h = "RecordView" -> RecordView(r, fail, ins)
      [] h = "RoomAnalytics" -> RoomAnalytics(r, fail)
      [] h = "Health" -> Health(r, fail)
      [] h = "LegacyUsersSearch" -> LegacyUsersSearch(r, fail)
      [] h = "LegacyGetUser" -> LegacyGetUser(r, fail)
      [] h = "LegacyUserRooms" -> LegacyUserRooms(r, fail)
      [] h = "LegacyUserRoomSessions" -> LegacyUserRoomSessions(r, fail)
      [] h = "LegacyGetRoom" -> LegacyGetRoom(r, fail)
      [] h = "LegacyRoomParticipants" -> LegacyRoomParticipants(r, fail)
      [] h = "LegacyRoomTimeline" -> LegacyRoomTimeline(r, fail)
      [] h = "LegacySharedRooms" -> LegacySharedRooms(r, fail)
      [] h = "LegacyMostStalked" -> LegacyMostStalked(r, fail)
      [] h = "LegacyStats" -> LegacyStats(r, fail)

\* ------------------------------------------------------- request universe
\* The values a client sends for a path parameter: stored identities, an
\* identity nobody has ("u9", "r9"), and a username in another case ("AL").
ParamValues(name) ==
    CASE name = "userId" -> {"u1", "u2", "u9", "AL"}
      [] name = "user1Id" -> {"u1", "u2", "u9"}
      [] name = "user2Id" -> {"u1", "u2", "u9"}
      [] name = "roomId" -> {"r1", "r9"}

\* The paths that address a route: its pattern with every parameter filled in
PathsOf(route) ==
    {p \in [DOMAIN route.pattern ->
              UNION ({{route.pattern[i].name} : i \in {k \in DOMAIN route.pattern :
                                                         route.pattern[k].kind = "lit"}}
                     \cup {ParamValues(route.pattern[i].name) :
                              i \in {k \in DOMAIN route.pattern :
                                        route.pattern[k].kind = "param"}})] :
        \A i \in DOMAIN route.pattern :
            IF route.pattern[i].kind = "lit" THEN p[i] = route.pattern[i].name
            ELSE p[i] \in ParamValues(route.pattern[i].name)}

\* The query-string keys a client of a handler sends, each with its values
QuerySpace(h) ==
    CASE h \in {"UsersSearch", "LegacyUsersSearch"} ->
            [q |-> {"", "a", "al", "AL", "li"}, limit |-> {"1"}]
      [] h = "GetUser" -> [record_view |-> {"true", "false", "TRUE"}]
      [] h = "UserHistory" -> [type |-> {"all", "profile_update"}, limit |-> {"1"}]
      [] h = "UserRooms" ->
            [language |-> {"", "en"}, skill_level |-> {"beginner"},
             limit |-> {"1"}, offset |-> {"1"}]
      [] h \in {"UserRoomSessions", "LegacyUserRooms"} -> [limit |-> {"1"}, offset |-> {"1"}]
      [] h = "RoomParticipants" -> [current_only |-> {"true", "false"}]
      [] h = "RoomTimeline" ->
            [event_type |-> {"join", "leave", "kick", ""}, limit |-> {"1"}, offset |-> {"1"}]
      [] h = "LegacyRoomTimeline" -> [limit |-> {"1"}]
      [] h = "RoomSnapshots" ->
            [start_date |-> {"1"}, end_date |-> {"1"}, limit |-> {"1"}, offset |-> {"1"}]
      [] h = "SharedRooms" -> [min_overlaps |-> {"1", "2"}]
      [] h = "MostStalked" -> [days |-> {"1"}, limit |-> {"1"}]
      [] h = "MostActive" -> [by |-> {"time", "rooms", "name"}, days |-> {"1"}, limit |-> {"1"}]
      [] h = "TrendingRooms" ->
            [hours |-> {"1"}, language |-> {"en"}, skill_level |-> {"beginner"},
             limit |-> {"1"}]
      [] h = "ActiveRooms" ->
            [language |-> {"en"}, skill_level |-> {"beginner"}, limit |-> {"1"},
             sort |-> {"recent", "popular", "name"}]
      [] h = "SearchRooms" ->
            [q |-> {"", "a", "al", "en"}, limit |-> {"1"}, active_only |-> {"true"}]
      [] h = "StatsLanguages" -> [days |-> {"1"}]
      [] h = "RoomAnalytics" -> [days |-> {"1"}]
      [] OTHER -> [none |-> {}]

\* Every query string over a space: any subset of the keys, each with one of
\* its values
Queries(space) ==
    UNION { {f \in [S -> UNION {space[k] : k \in S}] : \A k \in S : f[k] \in space[k]} :
            S \in SUBSET (DOMAIN space) }

\* The pool.query calls a handler makes at most (the profile-view insert apart)
QueryCalls(h) ==
    CASE h = "GetUser" -> 3
      [] h \in {"UserRooms", "RoomSnapshots", "GetRoom"} -> 2
      [] OTHER -> 1

\* The outcomes of the profile-view insert; the model stops adding rows at MaxViews
InsertOutcomes(h) ==
    IF h \in {"GetUser", "RecordView"}
    THEN {"conflict", "error"} \cup (IF Len(profile_views) < MaxViews THEN {"inserted"} ELSE {})
    ELSE {"conflict"}

\* The rows the storage engine may return first for the profile lookup
FirstRows(h) == IF h = "GetUser" THEN DOMAIN users ELSE {1}

\* ---------------------------------------------------------------- actions
\* The handler answers: the response is sent, the queries it issued are on
\* record, and a recorded view is stored.  No other table changes.
Answer(r, h, out) ==
    /\ pc = "idle"
    /\ pc' = "done"
    /\ req' = r
    /\ handler' = h
    /\ res' = out.res
    /\ log' = out.log
    /\ profile_views' = out.views
    /\ UNCHANGED tables

\* A client addresses route i of a router; the router hands the request to
\* the first registered route that matches its method and path.
Serve(routes, i) ==
    \E path \in PathsOf(routes[i]) :
    \E query \in Queries(QuerySpace(routes[i].handler)) :
        LET served == routes[Dispatch(routes, routes[i].method, path)]
            r == [method |-> routes[i].method, path |-> path,
                  params |-> ParamsOf(served, path), query |-> query]
        IN \E fail \in 0..QueryCalls(served.handler) :
           \E ins \in InsertOutcomes(served.handler) :
           \E pick \in FirstRows(served.handler) :
               Answer(r, served.handler, Handle(served.handler, r, fail, ins, pick))

\* The handler function of route i is called with a request for its own path.
Call(routes, i) ==
    \E path \in PathsOf(routes[i]) :
    \E query \in Queries(QuerySpace(routes[i].handler)) :
    \E fail \in 0..QueryCalls(routes[i].handler) :
    \E ins \in InsertOutcomes(routes[i].handler) :
    \E pick \in FirstRows(routes[i].handler) :
        LET r == [method |-> routes[i].method, path |-> path,
                  params |-> ParamsOf(routes[i], path), query |-> query]
        IN Answer(r, routes[i].handler, Handle(routes[i].handler, r, fail, ins, pick))

\* The request is over; the router waits for the next one.
NextRequest ==
    /\ pc = "done"
    /\ pc' = "idle"
    /\ req' = NoRequest
    /\ handler' = "none"
    /\ res' = NoResponse
    /\ log' = <<>>
    /\ UNCHANGED <<tables, profile_views>>

\* A request to the router of src/routes/api.js
Request == \E i \in DOMAIN Routes : Serve(Routes, i)

\* A request to the router of src/unnamed/part_001
LegacyRequest == \E i \in DOMAIN LegacyRoutes : Serve(LegacyRoutes, i)

Next == Request \/ LegacyRequest \/ NextRequest

\* The service: requests arrive through a router.
Spec == Init /\ [][Next]_vars

\* One action per handler function
OnUsersSearch == Call(Routes, 1)
OnGetUser == Call(Routes, 2)
OnUserHistory == Call(Routes, 3)
OnUserRooms == Call(Routes, 4)
OnUserRoomSessions == Call(Routes, 5)
OnGetRoom == Call(Routes, 6)
OnRoomParticipants == Call(Routes, 7)
OnRoomTimeline == Call(Routes, 8)
OnRoomSnapshots == Call(Routes, 9)
OnSharedRooms == Call(Routes, 10)
OnMostStalked == Call(Routes, 11)
OnMostActive == Call(Routes, 12)
OnTrendingRooms == Call(Routes, 13)
OnActiveRooms == Call(Routes, 14)
OnSearchRooms == Call(Routes, 15)
OnStats == Call(Routes, 16)
OnStatsLanguages == Call(Routes, 17)
OnStatsSkills == Call(Routes, 18)
OnRecordView == Call(Routes, 19)
OnRoomAnalytics == Call(Routes, 20)
OnHealth == Call(Routes, 21)
OnLegacyUsersSearch == Call(LegacyRoutes, 1)
OnLegacyGetUser == Call(LegacyRoutes, 2)
OnLegacyUserRooms == Call(LegacyRoutes, 3)
OnLegacyUserRoomSessions == Call(LegacyRoutes, 4)
OnLegacyGetRoom == Call(LegacyRoutes, 5)
OnLegacyRoomParticipants == Call(LegacyRoutes, 6)
OnLegacyRoomTimeline == Call(LegacyRoutes, 7)
OnLegacySharedRooms == Call(LegacyRoutes, 8)
OnLegacyMostStalked == Call(LegacyRoutes, 9)
OnLegacyStats == Call(LegacyRoutes, 10)

HandlerNext ==
    \/ OnUsersSearch
    \/ OnGetUser
    \/ OnUserHistory
    \/ OnUserRooms
    \/ OnUserRoomSessions
    \/ OnGetRoom
    \/ OnRoomParticipants
    \/ OnRoomTimeline
    \/ OnRoomSnapshots
    \/ OnSharedRooms
    \/ OnMostStalked
    \/ OnMostActive
    \/ OnTrendingRooms
    \/ OnActiveRooms
    \/ OnSearchRooms
    \/ OnStats
    \/ OnStatsLanguages
    \/ OnStatsSkills
    \/ OnRecordView
    \/ OnRoomAnalytics
    \/ OnHealth
    \/ OnLegacyUsersSearch
    \/ OnLegacyGetUser
    \/ OnLegacyUserRooms
    \/ OnLegacyUserRoomSessions
    \/ OnLegacyGetRoom
    \/ OnLegacyRoomParticipants
    \/ OnLegacyRoomTimeline
    \/ OnLegacySharedRooms
    \/ OnLegacyMostStalked
    \/ OnLegacyStats
    \/ NextRequest

\* The handler functions, each called on the requests of its own route.
HandlerSpec == Init /\ [][HandlerNext]_vars

\* The rows the sessions table may hold: two users in one room, every
\* interval of 0..MaxTime, closed or ongoing
SessionRows ==
    {x \in {Session(u, "r1", j, l) : u \in {"u1", "u2"}, j \in 0..MaxTime,
                                     l \in {NULL} \cup 0..MaxTime} :
        x.left_at = NULL \/ x.joined_at <= x.left_at}

SharedInit ==
    /\ users = SeedUsers
    /\ rooms = SeedRooms
    /\ sessions \in SeqsUpTo(SessionRows, MaxSessions)
    /\ user_activity_log = SeedActivityLog
    /\ room_snapshots = SeedSnapshots
    /\ room_analytics = SeedAnalytics
    /\ profile_views = <<>>
    /\ InitRequest

\* The shared-rooms handler over every bounded sessions table.
SharedSpec == SharedInit /\ [][OnSharedRooms]_vars


\* ------------------------------------------------------- search tables
\* The values of a nullable counter column
Counters == {NULL} \cup 0..MaxCount

\* Every users table over the seeded identities and names
UsersTables ==
    {[i \in DOMAIN SeedUsers |->
         [SeedUsers[i] EXCEPT !.followers_count = f[i], !.total_sessions = t[i]]] :
        f \in [DOMAIN SeedUsers -> Counters], t \in [DOMAIN SeedUsers -> Counters]}

\* Every rooms table of two rooms on the same topic
RoomsTables ==
    {[i \in DOMAIN SeedRooms |->
         [SeedRooms[i] EXCEPT !.topic = "talk", !.is_active = a[i],
                              !.current_users_count = c[i], !.last_activity = l[i]]] :
        a \in [DOMAIN SeedRooms -> {"true", "false", "null"}],
        c \in [DOMAIN SeedRooms -> Counters],
        l \in [DOMAIN SeedRooms -> 0..MaxCount]}

SearchInit ==
    /\ \/ users \in UsersTables /\ rooms = SeedRooms
       \/ users = SeedUsers /\ rooms \in RoomsTables
    /\ sessions = SeedSessions
    /\ user_activity_log = SeedActivityLog
    /\ room_snapshots = SeedSnapshots
    /\ room_analytics = SeedAnalytics
    /\ profile_views = <<>>
    /\ InitRequest

SearchNext == OnUsersSearch \/ OnSearchRooms

\* The two search handlers over every bounded users and rooms table.
SearchSpec == SearchInit /\ [][SearchNext]_vars

\* ------------------------------------------------------- room tables
RoomInit ==
    /\ users = SeedUsers
    /\ rooms \in RoomsTables
    /\ sessions = SeedSessions
    /\ user_activity_log = SeedActivityLog
    /\ room_snapshots = SeedSnapshots
    /\ room_analytics = SeedAnalytics
    /\ profile_views = <<>>
    /\ InitRequest

\* The room-details handler over every bounded rooms table.
RoomSpec == RoomInit /\ [][OnGetRoom]_vars

\* ------------------------------------------------------- user names
\* The usernames the lookup tables draw from: seeded names and names that
\* read like an identity
Names == {"al", "ali", "u1", "U1"}

\* Every users table over the seeded identities whose usernames differ
NamedTables ==
    {[i \in DOMAIN SeedUsers |-> [SeedUsers[i] EXCEPT !.username = n[i]]] :
        n \in {m \in [DOMAIN SeedUsers -> Names] :
                  \A i, j \in DOMAIN SeedUsers : i # j => m[i] # m[j]}}

LookupInit ==
    /\ users \in NamedTables
    /\ rooms = SeedRooms
    /\ sessions = SeedSessions
    /\ user_activity_log = SeedActivityLog
    /\ room_snapshots = SeedSnapshots
    /\ room_analytics = SeedAnalytics
    /\ profile_views = <<>>
    /\ InitRequest

\* The profile handler over every bounded assignment of usernames.
LookupSpec == LookupInit /\ [][OnGetUser]_vars

\* ------------------------------------------------------- two shared rooms
\* The sessions a user may have in a room: every interval of 0..MaxTime
SessionsOf(u, r) ==
    {x \in {Session(u, r, j, l) : j \in 0..MaxTime, l \in {NULL} \cup 0..MaxTime} :
        x.left_at = NULL \/ x.joined_at <= x.left_at}

\* Both users in both rooms, u2 in r2 throughout, u1 possibly back in r1
TwoRoomSessions ==
    {<<a, b, c, Session("u2", "r2", 0, NULL)>> :
        a \in SessionsOf("u1", "r1"), b \in SessionsOf("u2", "r1"),
        c \in SessionsOf("u1", "r2")}
    \cup
    {<<a, b, c, Session("u2", "r2", 0, NULL), Session("u1", "r1", j, NULL)>> :
        a \in SessionsOf("u1", "r1"), b \in SessionsOf("u2", "r1"),
        c \in SessionsOf("u1", "r2"), j \in 0..MaxTime}

TwoRoomInit ==
    /\ users = SeedUsers
    /\ rooms = SeedRooms
    /\ sessions \in TwoRoomSessions
    /\ user_activity_log = SeedActivityLog
    /\ room_snapshots = SeedSnapshots
    /\ room_analytics = SeedAnalytics
    /\ profile_views = <<>>
    /\ InitRequest

\* The shared-rooms handler over two rooms that both users visited.
TwoRoomSpec == TwoRoomInit /\ [][OnSharedRooms]_vars

\* ----------------------------------------------------------------- claims
\* ---------------------------------------------------------------- C1
\* The handlers that build their SQL from optional filters
FilterHandlers ==
    {"UserRooms", "RoomTimeline", "RoomSnapshots", "TrendingRooms", "ActiveRooms",
     "MostActive", "StatsLanguages"}

\* The positions of the SQL text that end in a placeholder
Placeholders(sql) == {i \in DOMAIN sql : sql[i].ph > 0}

\* The value each placeholder-bearing fragment of these handlers is written for
BuiltFor(s) ==
    CASE s = "s.user_id = " -> "userId"
      [] s \in {"s.room_id = ", "room_id = "} -> "roomId"
      [] s \in {" AND r.language = ", " AND language = "} -> "language"
      [] s \in {" AND r.skill_level = ", " AND skill_level = "} -> "skill_level"
      [] s = " AND s.event_type = " -> "event_type"
      [] s = " AND snapshot_time >= " -> "start_date"
      [] s = " AND snapshot_time <= " -> "end_date"
      [] s = "s.joined_at >= NOW() - INTERVAL '1 hour' * " -> "hours"
      [] s \in {"WHERE s.joined_at >= NOW() - INTERVAL '1 day' * ",
                "AND s.joined_at >= NOW() - INTERVAL '1 day' * "} -> "days"
      [] s = " LIMIT " -> "limit"
      [] s = " OFFSET " -> "offset"
      [] OTHER -> "unknown"

\* $1..$n without gap or collision, n the length of the parameter array, every
\* placeholder at the position of its value, LIMIT and OFFSET last
WellNumbered(q) ==
    /\ {q.sql[i].ph : i \in Placeholders(q.sql)} = 1..Len(q.params)
    /\ \A i, j \in Placeholders(q.sql) : q.sql[i].ph = q.sql[j].ph => i = j
    /\ \A i \in Placeholders(q.sql) : q.params[q.sql[i].ph].name = BuiltFor(q.sql[i].s)
    /\ \A i \in Placeholders(q.sql) :
          /\ q.sql[i].s = " OFFSET " => q.sql[i].ph = Len(q.params)
          /\ q.sql[i].s = " LIMIT " =>
                q.sql[i].ph = Len(q.params)
                              - Cardinality({j \in Placeholders(q.sql) : q.sql[j].s = " OFFSET "})

\* C1: every query a filter endpoint issues, for every subset of its optional
\* filters, has placeholders $1..$n equal in number to its parameters, each
\* at the position of the value it was built for, LIMIT/OFFSET last.
C1_PlaceholdersMatchParams ==
    (pc = "done" /\ handler \in FilterHandlers) =>
        \A k \in DOMAIN log : WellNumbered(log[k])

\* Both optional filters of the room history present: four or more parameters,
\* and a count query on the shorter array
C1_Witness ==
    /\ pc = "done"
    /\ handler = "UserRooms"
    /\ Truthy(req.query, "language")
    /\ Truthy(req.query, "skill_level")
    /\ Len(log) = 2
    /\ Len(log[1].params) = 5
    /\ Len(log[2].params) = 3
    /\ WellNumbered(log[1])

\* A filter present with an empty value is skipped and shifts no index
C1_WitnessEmptyFilter ==
    /\ pc = "done"
    /\ handler = "UserRooms"
    /\ Has(req.query, "language")
    /\ ~Truthy(req.query, "language")
    /\ Truthy(req.query, "skill_level")
    /\ Len(log[1].params) = 4

\* ---------------------------------------------------------------- C2
\* The handler each discovery path is registered for
OwnHandler(path) ==
    CASE path = <<"rooms", "trending">> -> {"TrendingRooms"}
      [] path = <<"rooms", "active">> -> {"ActiveRooms"}
      [] path = <<"rooms", "search">> -> {"SearchRooms"}
      [] path = <<"users", "search">> -> {"UsersSearch", "LegacyUsersSearch"}

\* C2: a GET of /rooms/trending, /rooms/active or /rooms/search is served by
\* its own discovery handler and not by the /rooms/:roomId handler, just as
\* /users/search is served by the search handler and not by /users/:userId.
C2_DiscoveryServedByOwnHandler ==
    (/\ pc = "done"
     /\ req.method = "GET"
     /\ req.path \in {<<"rooms", "trending">>, <<"rooms", "active">>,
                      <<"rooms", "search">>, <<"users", "search">>}) =>
        handler \in OwnHandler(req.path)

\* The part of C2 that the code does keep: /users/search reaches the search
\* handler, which is registered before /users/:userId
C2_UsersSearchReached ==
    /\ pc = "done"
    /\ req.path = <<"users", "search">>
    /\ handler = "UsersSearch"

\* ---------------------------------------------------------------- C3
\* A row with the two users' session counts exchanged
SwapUsers(row) ==
    [row EXCEPT !.user1_sessions = row.user2_sessions,
                !.user2_sessions = row.user1_sessions]

\* C3: shared(A, B) and shared(B, A) return the same rooms with the same
\* overlap_count, first_overlap_time and last_overlap_time, with
\* user1_sessions and user2_sessions swapped.
C3_SharedRoomsSymmetric ==
    (pc = "done" /\ handler = "SharedRooms" /\ res.status = 200) =>
        LET other == SharedRoomsRows(req.params["user2Id"], req.params["user1Id"],
                                     NumParam(req.query, "min_overlaps", 1))
        IN /\ Len(res.body) = Len(other)
           /\ \A i \in DOMAIN other : res.body[i] = SwapUsers(other[i])

\* ---------------------------------------------------------------- C4
\* The session pairs of a room, one session of each user, that intersect
OverlappingPairs(roomId, user1Id, user2Id) ==
    {p \in JoinedPairs(roomId, user1Id, user2Id) : Overlaps(sessions[p[1]], sessions[p[2]])}

\* C4: overlap_count of every returned room is the number of session pairs
\* (one session of user 1, one of user 2, both in the room) whose intervals
\* intersect, a null left_at lasting until now.
C4_OverlapCountCountsPairs ==
    (/\ pc = "done" /\ handler = "SharedRooms" /\ res.status = 200
     /\ req.params["user1Id"] # req.params["user2Id"]) =>
        \A i \in DOMAIN res.body :
            res.body[i].overlap_count =
                Cardinality(OverlappingPairs(res.body[i].room_id, req.params["user1Id"],
                                             req.params["user2Id"]))

\* The scenario of C4 that the code does keep: one session each, overlapping
C4_SinglePairScenario ==
    /\ pc = "done"
    /\ handler = "SharedRooms"
    /\ res.status = 200
    /\ req.params["user1Id"] = "u1"
    /\ req.params["user2Id"] = "u2"
    /\ Len(sessions) = 2
    /\ Len(res.body) = 1
    /\ res.body[1].overlap_count = 1
    /\ Cardinality(OverlappingPairs("r1", "u1", "u2")) = 1

\* ---------------------------------------------------------------- C5
\* C5: first_overlap_time is the minimum, over overlapping pairs, of the later
\* joined_at, and last_overlap_time the maximum, over overlapping pairs, of
\* the earlier end; pairs that do not overlap influence neither.
C5_OverlapTimesFromOverlappingPairs ==
    (/\ pc = "done" /\ handler = "SharedRooms" /\ res.status = 200
     /\ req.params["user1Id"] # req.params["user2Id"]) =>
        \A i \in DOMAIN res.body :
            LET over == OverlappingPairs(res.body[i].room_id, req.params["user1Id"],
                                         req.params["user2Id"])
            IN over # {} =>
                /\ res.body[i].first_overlap_time =
                      MinOf({Max(sessions[p[1]].joined_at, sessions[p[2]].joined_at) :
                                p \in over})
                /\ res.body[i].last_overlap_time =
                      MaxOf({Min(EndOf(sessions[p[1]]), EndOf(sessions[p[2]])) : p \in over})

\* ---------------------------------------------------------------- C6
\* The profile-view insert among the queries of a request
IsViewInsert(q) == q.sql = recordProfileView("", "conflict").query.sql

ViewInserts == {k \in DOMAIN log : IsViewInsert(log[k])}

\* C6: once GET /users/:userId?record_view=true or POST /users/:userId/view
\* has issued the profile-view insert, the status is 200 and status and body
\* are those the handler gives under every outcome of the insert: stored,
\* dropped as a conflict, or rejected.
C6_ViewRecordingNeverAffectsResponse ==
    (pc = "done" /\ handler \in {"GetUser", "RecordView"} /\ ViewInserts # {}) =>
        /\ res.status = 200
        /\ \A ins \in {"inserted", "conflict", "error"} :
              \E pick \in FirstRows(handler) :
                  Handle(handler, req, 0, ins, pick).res = res

\* The insert of a profile fetch is rejected and the profile is served
C6_Witness ==
    /\ pc = "done"
    /\ handler = "GetUser"
    /\ Get(req.query, "record_view", "false") = "true"
    /\ \E k \in ViewInserts : log[k].outcome = "error"
    /\ res.status = 200
    /\ profile_views = <<>>

\* The insert of the view endpoint is rejected and success is reported
C6_WitnessPost ==
    /\ pc = "done"
    /\ handler = "RecordView"
    /\ \E k \in ViewInserts : log[k].outcome = "error"
    /\ res.status = 200
    /\ res.body = [success |-> TRUE, message |-> "Profile view recorded"]

\* ---------------------------------------------------------------- C7
\* C7: POST /users/:userId/view for a userId no user has issues no insert and,
\* the existence check having been answered, returns 404 {error}; an insert
\* is only ever issued second, after an answered existence check that found
\* the user, so that no stored view names a missing user.
C7_MissingUserViewIs404 ==
    /\ (pc = "done" /\ handler = "RecordView" /\ ~HasUser(req.params["userId"])) =>
          /\ ViewInserts = {}
          /\ Len(log) = 1
          /\ log[1].outcome = "ok" =>
                res.status = 404 /\ res.body = [error |-> "User not found"]
          /\ log[1].outcome = "error" => res.status = 500
    /\ (pc = "done" /\ handler = "RecordView" /\ ViewInserts # {}) =>
          /\ ViewInserts = {2}
          /\ log[1].sql = UserCheckSql
          /\ log[1].outcome = "ok"
          /\ HasUser(req.params["userId"])
    /\ \A k \in DOMAIN profile_views : HasUser(profile_views[k].viewed_user_id)

\* The view endpoint is asked for a user nobody is, and answers 404
C7_Witness ==
    /\ pc = "done"
    /\ handler = "RecordView"
    /\ req.method = "POST"
    /\ ~HasUser(req.params["userId"])
    /\ res.status = 404
    /\ log[1].sql = UserCheckSql
    /\ ViewInserts = {}

\* ---------------------------------------------------------------- C8
\* The handlers of src/routes/api.js that take a user or room in their path
IdentityHandlers ==
    {"GetUser", "UserHistory", "UserRooms", "UserRoomSessions", "GetRoom",
     "RoomParticipants", "RoomTimeline", "RoomSnapshots", "RoomAnalytics", "SharedRooms"}

\* Nobody has this user_id or, in any case, this username
NoSuchUser(uid) == \A k \in DOMAIN users : ~GetUserMatches(users[k], uid)

NoSuchRoom(rid) == \A k \in DOMAIN rooms : rooms[k].room_id # rid

\* An identity in the path of the request names no user or no room
IdentityMissing ==
    \E k \in DOMAIN req.params :
        IF k = "roomId" THEN NoSuchRoom(req.params[k]) ELSE NoSuchUser(req.params[k])

\* C8: with storage answering, every endpoint that takes a user or room in its
\* path returns 404 {error} when that user or room does not exist.
C8_MissingIdentityIs404 ==
    (/\ pc = "done"
     /\ handler \in IdentityHandlers
     /\ \A k \in DOMAIN log : log[k].outcome # "error"
     /\ IdentityMissing) =>
        /\ res.status = 404
        /\ res.kind = "object"
        /\ DOMAIN res.body = {"error"}

\* The part of C8 that the code does keep: the profile of a missing user
C8_ProfileIs404 ==
    /\ pc = "done"
    /\ handler = "GetUser"
    /\ IdentityMissing
    /\ res.status = 404
    /\ res.body = [error |-> "User not found"]

\* ---------------------------------------------------------------- C9
\* The queries of the request, other than the profile-view insert, that failed
FailedQueries == {k \in DOMAIN log : log[k].outcome = "error" /\ ~IsViewInsert(log[k])}

\* C9: when a storage query of a handler other than /health fails, the answer
\* is 500 with a body holding an error message and a details field, and no
\* query follows the failed one.
C9_StorageFailureIs500WithDetails ==
    (pc = "done" /\ handler # "Health" /\ FailedQueries # {}) =>
        /\ res.status = 500
        /\ res.kind = "object"
        /\ {"error", "details"} \subseteq DOMAIN res.body
        /\ FailedQueries = {Len(log)}

\* The part of C9 that src/routes/api.js does keep
C9_DetailsReported ==
    /\ pc = "done"
    /\ handler = "UsersSearch"
    /\ FailedQueries = {1}
    /\ res.status = 500
    /\ res.body = [error |-> "Search failed", details |-> ErrorMessage]

\* ---------------------------------------------------------------- C10
\* C10: a GET of /users/search or /rooms/search whose q is missing or shorter
\* than two characters is answered 200 with [] and issues no storage query.
C10_ShortSearchIsEmptyWithoutQuery ==
    (/\ pc = "done"
     /\ req.method = "GET"
     /\ req.path \in {<<"users", "search">>, <<"rooms", "search">>}
     /\ (~Has(req.query, "q") \/ StrLen(req.query["q"]) < 2)) =>
        /\ res.status = 200
        /\ res.kind = "array"
        /\ Len(res.body) = 0
        /\ log = <<>>

\* The part of C10 that the code does keep: a one-letter user search
C10_ShortUserSearch ==
    /\ pc = "done"
    /\ handler = "UsersSearch"
    /\ Has(req.query, "q")
    /\ StrLen(req.query["q"]) = 1
    /\ res.status = 200
    /\ res.body = <<>>
    /\ log = <<>>

\* ---------------------------------------------------------------- C11
\* The relevance tier of a username: equal to q, starting with q, any other
\* match, letter case ignored
RelevanceTier(username, q) ==
    IF Lower(username) = Lower(q) THEN 1
    ELSE IF StartsWith(Lower(username), Lower(q)) THEN 2
    ELSE 3

\* x is not placed after y in a descending order with nulls last
NotAfterNullsLast(x, y) == y = NULL \/ (x # NULL /\ x >= y)

\* Row a may stand before row b in the search order
MayPrecede(a, b, q) ==
    \/ RelevanceTier(a.username, q) < RelevanceTier(b.username, q)
    \/ /\ RelevanceTier(a.username, q) = RelevanceTier(b.username, q)
       /\ NotAfterNullsLast(a.followers_count, b.followers_count)
       /\ a.followers_count = b.followers_count =>
             NotAfterNullsLast(a.total_sessions, b.total_sessions)

\* The stored users a search for q matches and the response leaves out
LeftOut(q) ==
    {k \in DOMAIN users :
        /\ \/ Contains(Lower(users[k].username), Lower(q))
           \/ Contains(Lower(users[k].user_id), Lower(q))
        /\ \A i \in DOMAIN res.body : res.body[i].user_id # users[k].user_id}

C11_WitnessTieBreak ==
    /\ pc = "done"
    /\ handler = "UsersSearch"
    /\ res.status = 200
    /\ Len(res.body) = 2
    /\ RelevanceTier(res.body[1].username, req.query["q"]) = 3
    /\ RelevanceTier(res.body[2].username, req.query["q"]) = 3
    /\ res.body[1].followers_count = res.body[2].followers_count
    /\ res.body[1].total_sessions = 1
    /\ res.body[2].total_sessions = NULL
    /\ res.body[1].user_id = "u3"

\* ---------------------------------------------------------------- C12
\* C12: room search results list every active room before every room that is
\* not active (is_active false or null), then order by current_users_count
\* descending, then by last_activity descending (a null count left free).
C12_RoomSearchActiveFirst ==
    (pc = "done" /\ handler = "SearchRooms" /\ res.status = 200) =>
        \A i, j \in DOMAIN res.body :
            i < j =>
                LET a == res.body[i]
                    b == res.body[j]
                IN \/ a.is_active = "true" /\ b.is_active # "true"
                   \/ /\ (a.is_active = "true") = (b.is_active = "true")
                      /\ \/ a.current_users_count = NULL
                         \/ b.current_users_count = NULL
                         \/ a.current_users_count > b.current_users_count
                         \/ /\ a.current_users_count = b.current_users_count
                            /\ a.last_activity >= b.last_activity

\* The part of C12 that the code does keep: an active room before one that is
\* stored as not active, whatever their occupancy
C12_ActiveBeforeInactive ==
    /\ pc = "done"
    /\ handler = "SearchRooms"
    /\ res.status = 200
    /\ Len(res.body) = 2
    /\ res.body[1].is_active = "true"
    /\ res.body[2].is_active = "false"
    /\ res.body[1].current_users_count = 0
    /\ res.body[2].current_users_count = 1

\* ---------------------------------------------------------------- C13
\* The handlers that answer with a page and a pagination block
PagedHandlers == {"UserRooms", "RoomSnapshots"}

\* The items of a paginated response
Items == IF handler = "UserRooms" THEN res.body.rooms ELSE res.body.snapshots

\* C13: in every paginated response has_more is true exactly when
\* offset + number of returned items < total.
C13_HasMore ==
    (pc = "done" /\ handler \in PagedHandlers /\ res.status = 200) =>
        res.body.pagination.has_more =
            (res.body.pagination.offset + Len(Items) < res.body.pagination.total)

\* A last page: items returned, nothing more
C13_Witness ==
    /\ pc = "done"
    /\ handler = "UserRooms"
    /\ res.status = 200
    /\ res.body.pagination.offset = 1
    /\ Len(Items) = 1
    /\ res.body.pagination.total = 2
    /\ res.body.pagination.has_more = FALSE

\* A first page with more to come
C13_WitnessMore ==
    /\ pc = "done"
    /\ handler = "RoomSnapshots"
    /\ res.status = 200
    /\ res.body.pagination.offset = 0
    /\ Len(Items) = 1
    /\ res.body.pagination.total = 2
    /\ res.body.pagination.has_more = TRUE

\* ---------------------------------------------------------------- C14
\* The request without its limit and offset
Unpaged(r) == [r EXCEPT !.query = Restrict(r.query, DOMAIN r.query \ {"limit", "offset"})]

\* Every item the page query ranges over
AllItems ==
    IF handler = "UserRooms" THEN UserRoomsRows(Unpaged(req))
    ELSE RoomSnapshotsRows(Unpaged(req))

\* C14: the count query of a paginated endpoint has the WHERE predicate of
\* the page query and receives the page query's parameters without the
\* trailing limit and offset, for every subset of filters, and total is the
\* number of items the page query ranges over.
C14_CountQuerySharesPredicate ==
    (pc = "done" /\ handler \in PagedHandlers /\ Len(log) = 2) =>
        LET page == log[1]
            count == log[2]
            n == Len(page.params)
        IN /\ Len(page.sql) = Len(count.sql) + 3
           /\ Tail(count.sql) = SubSeq(page.sql, 2, Len(count.sql))
           /\ page.sql[Len(page.sql) - 1].s = " LIMIT "
           /\ page.sql[Len(page.sql)].s = " OFFSET "
           /\ n >= 3
           /\ page.params[n - 1].name = "limit"
           /\ page.params[n].name = "offset"
           /\ count.params = SubSeq(page.params, 1, n - 2)
           /\ res.status = 200 => res.body.pagination.total = Len(AllItems)

\* Both date filters of the snapshots given: the count query takes three of
\* the five parameters and counts fewer snapshots than the room has
C14_Witness ==
    /\ pc = "done"
    /\ handler = "RoomSnapshots"
    /\ res.status = 200
    /\ Len(log) = 2
    /\ Len(log[1].params) = 5
    /\ Len(log[2].params) = 3
    /\ res.body.pagination.total = 1

\* ---------------------------------------------------------------- C15
\* C15: in the response of GET /rooms/:roomId, statistics.is_currently_active
\* is a boolean, and true if and only if statistics.currently_active_users
\* > 0, whatever the stored is_active flag of the room.
C15_IsCurrentlyActiveIffUsers ==
    (pc = "done" /\ handler = "GetRoom" /\ res.status = 200) =>
        /\ res.body.statistics.is_currently_active \in {"true", "false"}
        /\ (res.body.statistics.is_currently_active = "true") =
              (res.body.statistics.currently_active_users > 0)

\* The part of C15 that the code does keep: a room stored as active
C15_ActiveRoom ==
    /\ pc = "done"
    /\ handler = "GetRoom"
    /\ res.status = 200
    /\ res.body.is_active = "true"
    /\ res.body.statistics.currently_active_users = 2
    /\ res.body.statistics.is_currently_active = "true"

\* ---------------------------------------------------------------- C16
\* The numeric metric, aggregate and count fields of the rows of a response
ProfileMetrics ==
    {"followers_count", "following_count", "friends_count", "profile_views_count",
     "total_sessions", "total_duration_seconds"}

ProfileStatistics ==
    {"total_rooms_visited", "total_sessions", "total_duration_seconds", "avg_session_duration"}

SearchMetrics == {"followers_count", "following_count", "friends_count", "total_sessions"}

RoomHistoryMetrics == {"total_visits", "total_time_seconds", "avg_session_duration"}

LeaderboardMetrics ==
    {"followers_count", "total_sessions", "total_time_seconds", "rooms_visited",
     "avg_session_duration"}

\* No field of the set is null in any row
NoNull(rows, fields) == \A i \in DOMAIN rows : \A f \in fields : rows[i][f] # NULL

\* C16: in every response a numeric metric, aggregate or count field whose
\* value is absent or null appears as 0, never as null: in the profile and
\* equally in the rows of search, room history and the leaderboard.
C16_NullMetricsAppearAsZero ==
    (pc = "done" /\ res.status = 200) =>
        /\ handler = "GetUser" =>
              /\ NoNull(<<res.body>>, ProfileMetrics)
              /\ NoNull(<<res.body.statistics>>, ProfileStatistics)
        /\ (handler = "UsersSearch" /\ log # <<>>) => NoNull(res.body, SearchMetrics)
        /\ handler = "UserRooms" => NoNull(res.body.rooms, RoomHistoryMetrics)
        /\ handler = "MostActive" => NoNull(res.body, LeaderboardMetrics)

\* The part of C16 that the code does keep: the profile of a user stored
\* with null counters shows them as 0, and shaping twice changes nothing
C16_ProfileZero ==
    /\ pc = "done"
    /\ handler = "GetUser"
    /\ res.status = 200
    /\ res.body.user_id = "u1"
    /\ UserOf("u1").following_count = NULL
    /\ res.body.following_count = 0
    /\ res.body.profile_views_count = 0
    /\ \A f \in ProfileMetrics : OrZero(res.body[f]) = res.body[f]

\* The room history of a user whose only visit has no duration yet
C16_RoomHistoryNull ==
    /\ pc = "done"
    /\ handler = "UserRooms"
    /\ res.status = 200
    /\ Len(res.body.rooms) = 1
    /\ res.body.rooms[1].total_time_seconds = NULL
    /\ res.body.rooms[1].avg_session_duration = NULL

\* ---------------------------------------------------------------- C17
\* The request that has just been answered is one of the two that may record
\* a view
MayRecordView ==
    \/ handler' = "RecordView" /\ req'.method = "POST"
    \/ /\ handler' = "GetUser"
       /\ req'.method = "GET"
       /\ Get(req'.query, "record_view", "false") = "true"

\* C17: whatever the sequence of requests, no step changes users, rooms,
\* sessions, room_snapshots, room_analytics or user_activity_log; no row of
\* profile_views is deleted or modified; the only change is one row appended
\* to profile_views, and only by POST /users/:userId/view or by
\* GET /users/:userId with record_view=true, which alone issue the insert.
C17_OnlyViewsAreWritten ==
    [][ /\ UNCHANGED tables
        /\ Len(profile_views') >= Len(profile_views)
        /\ SubSeq(profile_views', 1, Len(profile_views)) = profile_views
        /\ Len(profile_views') <= Len(profile_views) + 1
        /\ profile_views' # profile_views => MayRecordView
        /\ (pc' = "done" /\ \E k \in DOMAIN log' : IsViewInsert(log'[k])) => MayRecordView
      ]_vars

\* Two views recorded one after the other, the second by the profile endpoint
C17_Witness ==
    /\ pc = "done"
    /\ handler = "GetUser"
    /\ Len(profile_views) = 2
    /\ ViewInserts # {}
    /\ log[Len(log)].outcome = "inserted"
    /\ tables = <<SeedUsers, SeedRooms, SeedSessions, SeedActivityLog, SeedSnapshots, SeedAnalytics>>

\* ---------------------------------------------------------------- C18
\* C18: GET /health is answered by the health check, which issues the probe
\* and nothing else; when the probe succeeds the answer is 200 with status
\* 'healthy', when it fails the answer is 503 with status 'unhealthy'; it is
\* never 500 and never 'healthy' after a failed probe.
C18_HealthReflectsProbe ==
    (pc = "done" /\ req.method = "GET" /\ req.path = <<"health">>) =>
        /\ handler = "Health"
        /\ Len(log) = 1
        /\ log[1].sql = << T("SELECT 1") >>
        /\ res.status # 500
        /\ log[1].outcome = "ok" =>
              /\ res.status = 200
              /\ res.body.status = "healthy"
              /\ res.body.database = "connected"
        /\ log[1].outcome = "error" =>
              /\ res.status = 503
              /\ res.body.status = "unhealthy"
              /\ res.body.database = "disconnected"
              /\ res.body.error = ErrorMessage

\* The probe failed and the answer is 503 'unhealthy'
C18_Witness ==
    /\ pc = "done"
    /\ handler = "Health"
    /\ log[1].outcome = "error"
    /\ res.status = 503
    /\ res.body.status = "unhealthy"

\* The probe succeeded and the answer is 200 'healthy'
C18_WitnessHealthy ==
    /\ pc = "done"
    /\ handler = "Health"
    /\ log[1].outcome = "ok"
    /\ res.status = 200
    /\ res.body.status = "healthy"

\* ---------------------------------------------------------------- C20
\* The user_id values of the stored users that the path parameter resolves to
Resolved == {users[i].user_id : i \in {k \in DOMAIN users :
                                          GetUserMatches(users[k], req.params["userId"])}}

\* Query k of the request went through and is keyed by id
KeyedBy(k, id) == log[k].params[1].val = id

\* C20: in GET /users/:userId the profile-view insert is attempted only when
\* record_view is exactly 'true', only as the fourth call, after a lookup that
\* found a user and after the statistics and favourite-language queries
\* succeeded, and it is on record when the response is sent; a request that
\* ends in 404 or 500 performs no insert; the statistics, the favourite
\* language and the insert are keyed by the user_id of the user the lookup
\* resolved, the one the response shows, not by the raw path parameter.
C20_ViewInsertAfterProfileQueries ==
    (pc = "done" /\ handler = "GetUser") =>
        /\ ViewInserts # {} =>
              /\ Has(req.query, "record_view")
              /\ req.query["record_view"] = "true"
              /\ ViewInserts = {4}
              /\ Len(log) = 4
              /\ Resolved # {}
              /\ \A k \in 1..3 : log[k].outcome = "ok"
              /\ log[1].sql = GetUserSql
              /\ log[2].sql = UserStatsSql
              /\ log[3].sql = FavLangSql
              /\ res.status = 200
              /\ log[4].outcome = "inserted" =>
                    /\ profile_views # <<>>
                    /\ profile_views[Len(profile_views)].viewed_user_id = res.body.user_id
        /\ res.status \in {404, 500} => ViewInserts = {}
        /\ \A k \in DOMAIN log : k >= 2 =>
              /\ log[k].params[1].val \in Resolved
              /\ res.status = 200 => KeyedBy(k, res.body.user_id)

\* The profile is asked for by name in another case, the lookup resolves it
\* to u1, and the three calls that follow carry u1
C20_Witness ==
    /\ pc = "done"
    /\ handler = "GetUser"
    /\ req.params["userId"] = "AL"
    /\ res.status = 200
    /\ res.body.user_id = "u1"
    /\ ViewInserts = {4}
    /\ \A k \in 2..4 : KeyedBy(k, "u1")
    /\ log[4].outcome = "inserted"

\* record_view=TRUE is not 'true': the profile is served and no view recorded
C20_WitnessNotExactlyTrue ==
    /\ pc = "done"
    /\ handler = "GetUser"
    /\ Has(req.query, "record_view")
    /\ req.query["record_view"] = "TRUE"
    /\ res.status = 200
    /\ ViewInserts = {}

\* ---------------------------------------------------------------- C21
\* Some stored user has the path parameter as user_id
IdentityMatch == \E i \in DOMAIN users : users[i].user_id = req.params["userId"]

\* A user other than that one has it, in whatever case, as username
NameCollision ==
    \E i \in DOMAIN users :
        /\ users[i].user_id # req.params["userId"]
        /\ Lower(users[i].username) = Lower(req.params["userId"])

\* C21: when the path parameter of GET /users/:userId is one user's user_id
\* and, case-insensitively, another user's username, the profile returned is
\* that of the user whose user_id matches, whichever of the two rows storage
\* returns first.
C21_IdentityMatchFirst ==
    (pc = "done" /\ handler = "GetUser" /\ res.status = 200
        /\ IdentityMatch /\ NameCollision) =>
        res.body.user_id = req.params["userId"]

\* Without a colliding username the identity match is the profile returned
C21_NoCollision ==
    /\ pc = "done"
    /\ handler = "GetUser"
    /\ res.status = 200
    /\ IdentityMatch
    /\ ~NameCollision
    /\ res.body.user_id = req.params["userId"]

\* ---------------------------------------------------------------- C22
\* Further values a client may send for a query key
MoreValues(k) ==
    CASE k = "q" -> {"ali", "bali"}
      [] k = "language" -> {"es"}
      [] k = "skill_level" -> {"advanced"}
      [] k \in {"start_date", "end_date", "days", "hours", "limit", "min_overlaps"} -> {"2"}
      [] k = "offset" -> {"0", "2"}
      [] k = "type" -> {"login"}
      [] OTHER -> {}

\* The query strings a second request to the handler may carry
OtherQueries(h) ==
    Queries([k \in DOMAIN QuerySpace(h) |-> QuerySpace(h)[k] \cup MoreValues(k)])

\* The path parameters a second request to the same route may carry
OtherParams ==
    {f \in [DOMAIN req.params -> UNION {ParamValues(n) : n \in DOMAIN req.params}] :
        \A n \in DOMAIN req.params : f[n] \in ParamValues(n)}

\* The optional filters a query string switches on
PresentFilters(query) ==
    {k \in {"language", "skill_level", "start_date", "end_date", "days"} : Truthy(query, k)}
    \cup {k \in {"event_type"} : Get(query, k, "") \in {"join", "leave"}}
    \cup {k \in {"current_only"} : Get(query, k, "true") = "true"}
    \cup {k \in {"active_only"} : Get(query, k, "false") = "true"}

\* The whitelisted sort a query string chooses, the default when it names none
SortChoice(query) ==
    << IF Get(query, "by", "sessions") \in {"time", "rooms"} THEN query["by"] ELSE "sessions",
       IF Get(query, "sort", "users") \in {"recent", "popular"} THEN query["sort"] ELSE "users" >>

\* The requests to the same endpoint that agree with the answered one on the
\* filters present and on the sort chosen
SameShape ==
    {[req EXCEPT !.query = q, !.params = p] :
        q \in {x \in OtherQueries(handler) :
                  /\ PresentFilters(x) = PresentFilters(req.query)
                  /\ SortChoice(x) = SortChoice(req.query)},
        p \in OtherParams}

\* The ORDER BY fragment of a built statement: the text before its LIMIT
OrderByFragment(sql) == sql[Len(sql) - 1].s

\* C22: the SQL text a handler sends depends only on which optional filters
\* are present and on the whitelisted sort choice: every statement of the
\* answered request has the text the same handler sends, at the same call,
\* for any request with the same filters present and the same sort choice,
\* whatever its path parameters, q, language, skill_level, dates, limit or
\* offset; the ORDER BY fragment of /leaderboard/most-active and of
\* /rooms/active is one of the fixed constants, the default one when by or
\* sort is not recognised.
C22_SqlTextIndependentOfValues ==
    (pc = "done") =>
        /\ \A r2 \in SameShape :
              LET other == Handle(handler, r2, 0, "conflict", 1).log
              IN \A k \in DOMAIN log \cap DOMAIN other : other[k].sql = log[k].sql
        /\ (handler = "MostActive" /\ log # <<>>) =>
              /\ OrderByFragment(log[1].sql) \in
                    {"total_sessions DESC", "total_time_seconds DESC", "rooms_visited DESC"}
              /\ Get(req.query, "by", "sessions") \notin {"time", "rooms"} =>
                    OrderByFragment(log[1].sql) = "total_sessions DESC"
        /\ (handler = "ActiveRooms" /\ log # <<>>) =>
              /\ OrderByFragment(log[1].sql) \in
                    {"current_users_count DESC", "last_activity DESC",
                     "current_users_count DESC, last_activity DESC"}
              /\ Get(req.query, "sort", "users") \notin {"recent", "popular"} =>
                    OrderByFragment(log[1].sql) = "current_users_count DESC"

\* The leaderboard asked to order by an unrecognised column falls back to the
\* default order, and a request with other values has the same text
C22_Witness ==
    /\ pc = "done"
    /\ handler = "MostActive"
    /\ Has(req.query, "by")
    /\ req.query["by"] = "name"
    /\ Truthy(req.query, "days")
    /\ OrderByFragment(log[1].sql) = "total_sessions DESC"
    /\ \E r2 \in SameShape :
          /\ r2.query["days"] # req.query["days"]
          /\ Handle(handler, r2, 0, "conflict", 1).log[1].sql = log[1].sql

\* Room history with a language filter: the text is that of any other language
C22_WitnessFilter ==
    /\ pc = "done"
    /\ handler = "UserRooms"
    /\ Truthy(req.query, "language")
    /\ Len(log) = 2
    /\ \E r2 \in SameShape :
          /\ r2.query["language"] # req.query["language"]
          /\ r2.params # req.params
          /\ Handle(handler, r2, 0, "conflict", 1).log[1].sql = log[1].sql

\* ---------------------------------------------------------------- C23
\* C23: every room the shared-rooms endpoint returns has overlap_count at
\* least min_overlaps, 1 when the request names none, so that by default
\* every returned room holds a pair of sessions, one of each user, that
\* overlap; the rooms come by overlap_count descending, then by
\* last_overlap_time descending.
C23_SharedRoomsThresholdAndOrder ==
    (pc = "done" /\ handler = "SharedRooms" /\ res.status = 200) =>
        /\ \A i \in DOMAIN res.body :
              res.body[i].overlap_count >= NumParam(req.query, "min_overlaps", 1)
        /\ ~Has(req.query, "min_overlaps") =>
              \A i \in DOMAIN res.body :
                  OverlappingPairs(res.body[i].room_id, req.params["user1Id"],
                                   req.params["user2Id"]) # {}
        /\ \A i \in 1..(Len(res.body) - 1) :
              \/ res.body[i].overlap_count > res.body[i + 1].overlap_count
              \/ /\ res.body[i].overlap_count = res.body[i + 1].overlap_count
                 /\ res.body[i].last_overlap_time >= res.body[i + 1].last_overlap_time

\* Both rooms are returned, the one with two overlaps before the one with one
\* although the latter's last overlap is not earlier
C23_Witness ==
    /\ pc = "done"
    /\ handler = "SharedRooms"
    /\ res.status = 200
    /\ req.params["user1Id"] = "u1"
    /\ req.params["user2Id"] = "u2"
    /\ Len(res.body) = 2
    /\ res.body[1].overlap_count = 2
    /\ res.body[2].overlap_count = 1
    /\ res.body[1].last_overlap_time <= res.body[2].last_overlap_time

\* Equal counts: the room of the later overlap comes first
C23_WitnessRecency ==
    /\ pc = "done"
    /\ handler = "SharedRooms"
    /\ res.status = 200
    /\ req.params["user1Id"] # req.params["user2Id"]
    /\ Len(res.body) = 2
    /\ res.body[1].overlap_count = res.body[2].overlap_count
    /\ res.body[1].last_overlap_time > res.body[2].last_overlap_time

\* A room both users visited without ever overlapping is left out by default
C23_WitnessLeftOut ==
    /\ pc = "done"
    /\ handler = "SharedRooms"
    /\ res.status = 200
    /\ ~Has(req.query, "min_overlaps")
    /\ req.params["user1Id"] = "u1"
    /\ req.params["user2Id"] = "u2"
    /\ JoinedPairs("r1", "u1", "u2") # {}
    /\ OverlappingPairs("r1", "u1", "u2") = {}
    /\ \A i \in DOMAIN res.body : res.body[i].room_id # "r1"

\* ---------------------------------------------------------------- C24
\* The request names an event type of the enumeration
TypeFilterApplies ==
    Has(req.query, "event_type") /\ req.query["event_type"] \in {"join", "leave"}

\* The fragments of a statement that compare the event type
TypePredicates(sql) == {i \in DOMAIN sql : sql[i].s = " AND s.event_type = "}

\* The placeholder written after the fragment s of a statement
PlaceholderOf(sql, s) == sql[CHOOSE i \in DOMAIN sql : sql[i].s = s].ph

\* C24: in GET /rooms/:roomId/timeline the event_type filter is applied only
\* when the value is exactly 'join' or 'leave': then the predicate is $2, its
\* value the second parameter, LIMIT and OFFSET are $3 and $4 and every event
\* returned has that type; for any other value, or none, the statement has no
\* such predicate and no such parameter, LIMIT and OFFSET are $2 and $3, and
\* the request succeeds with the timeline a request without event_type gets.
C24_TimelineTypeFilter ==
    (pc = "done" /\ handler = "RoomTimeline") =>
        /\ Len(log) = 1
        /\ log[1].outcome = "ok" => res.status = 200
        /\ log[1].params[1] = V("roomId", req.params["roomId"])
        /\ TypeFilterApplies =>
              /\ Len(log[1].params) = 4
              /\ log[1].params[2] = V("event_type", req.query["event_type"])
              /\ Cardinality(TypePredicates(log[1].sql)) = 1
              /\ PlaceholderOf(log[1].sql, " AND s.event_type = ") = 2
              /\ PlaceholderOf(log[1].sql, " LIMIT ") = 3
              /\ PlaceholderOf(log[1].sql, " OFFSET ") = 4
              /\ res.status = 200 =>
                    \A i \in DOMAIN res.body :
                        res.body[i].event_type = req.query["event_type"]
        /\ ~TypeFilterApplies =>
              /\ Len(log[1].params) = 3
              /\ TypePredicates(log[1].sql) = {}
              /\ PlaceholderOf(log[1].sql, " LIMIT ") = 2
              /\ PlaceholderOf(log[1].sql, " OFFSET ") = 3
              /\ res.status = 200 =>
                    res.body =
                        RoomTimelineRows([req EXCEPT !.query =
                            Restrict(req.query, DOMAIN req.query \ {"event_type"})])
        /\ log[1].params[Len(log[1].params) - 1].name = "limit"
        /\ log[1].params[Len(log[1].params)].name = "offset"

\* event_type=kick is ignored: the timeline of r1 holds joins and leaves
C24_Witness ==
    /\ pc = "done"
    /\ handler = "RoomTimeline"
    /\ Has(req.query, "event_type")
    /\ req.query["event_type"] = "kick"
    /\ res.status = 200
    /\ Len(log[1].params) = 3
    /\ \E i, j \in DOMAIN res.body :
          res.body[i].event_type = "join" /\ res.body[j].event_type = "leave"

\* event_type=leave is applied: only the leave of r1 is returned
C24_WitnessLeave ==
    /\ pc = "done"
    /\ handler = "RoomTimeline"
    /\ TypeFilterApplies
    /\ req.query["event_type"] = "leave"
    /\ res.status = 200
    /\ Len(log[1].params) = 4
    /\ Len(res.body) = 1
    /\ res.body[1].event_type = "leave"

====
